---------------------------- MODULE Spec2Model ----------------------------
(***************************************************************************)
(* A model of the chess rules engine brozeph/chess (Go edition): the board *)
(* with its reversible Move, the piece move generator, the board validator *)
(* (castling, king-safety filter, attacker detection), the Game (history,  *)
(* FEN metadata) and the AlgebraicGameClient (SAN table, Move, Undo, FEN). *)
(*                                                                         *)
(* Strings of the program are sequences of one-character strings, so that  *)
(* parsing and rendering are computed, character by character.             *)
(***************************************************************************)
EXTENDS Integers, Sequences, FiniteSets, TLC

(***************************************************************************)
(* Piece kinds and sides (pieces.go, sides.go).                            *)
(***************************************************************************)
pieceBishop == "bishop"
pieceKing   == "king"
pieceKnight == "knight"
piecePawn   == "pawn"
pieceQueen  == "queen"
pieceRook   == "rook"

sideWhite == "white"
sideBlack == "black"

Opponent(s) == IF s = sideWhite THEN sideBlack ELSE sideWhite

\* Piece.Notation as set by newPiece: the letter of the kind, empty for a pawn.
Notation(pt) ==
  CASE pt = pieceBishop -> <<"B">>
    [] pt = pieceKing   -> <<"K">>
    [] pt = pieceKnight -> <<"N">>
    [] pt = piecePawn   -> <<>>
    [] pt = pieceQueen  -> <<"Q">>
    [] pt = pieceRook   -> <<"R">>

\* newPiece: a fresh piece object; MoveCount starts at the zero value.
newPiece(pt, sd) == [Type |-> pt, Side |-> sd, MoveCount |-> 0]

\* Piece.toFEN: lower case for Black, upper case for White.
toFEN(p) ==
  LET lower == CASE p.Type = piecePawn   -> "p"
                 [] p.Type = pieceKnight -> "n"
                 [] p.Type = pieceBishop -> "b"
                 [] p.Type = pieceRook   -> "r"
                 [] p.Type = pieceQueen  -> "q"
                 [] p.Type = pieceKing   -> "k"
      upper == CASE p.Type = piecePawn   -> "P"
                 [] p.Type = pieceKnight -> "N"
                 [] p.Type = pieceBishop -> "B"
                 [] p.Type = pieceRook   -> "R"
                 [] p.Type = pieceQueen  -> "Q"
                 [] p.Type = pieceKing   -> "K"
  IN IF p.Side = sideWhite THEN upper ELSE lower

(***************************************************************************)
(* Geometry.  A square is its index (rank-1)*8 + (file-'a') in             *)
(* Board.Squares; a nil *Square is NoSquare, a nil *Piece is NoPiece.      *)
(***************************************************************************)
NoSquare == 0 - 1
NoPiece  == 0

SquareIdx == 0 .. 63

FileOf(sq) == sq % 8          \* 0 = 'a' .. 7 = 'h'
RankOf(sq) == (sq \div 8) + 1 \* 1 .. 8

FileChars == <<"a", "b", "c", "d", "e", "f", "g", "h">>
Digits    == <<"0", "1", "2", "3", "4", "5", "6", "7", "8", "9">>

fileA == 0
fileB == 1
fileC == 2
fileD == 3
fileE == 4
fileF == 5
fileG == 6
fileH == 7

\* Board.GetSquare(f, r): nil outside the board.
GetSquare(f, r) ==
  IF r < 1 \/ r > 8 \/ f < 0 \/ f > 7 THEN NoSquare ELSE (r - 1) * 8 + f

\* neighbors.go
NeighborAbove            == 8
NeighborAboveLeft        == 7
NeighborAboveRight       == 9
NeighborBelow            == 0 - 8
NeighborBelowLeft        == 0 - 9
NeighborBelowRight       == 0 - 7
NeighborLeft             == 0 - 1
NeighborRight            == 1
NeighborKnightAboveLeft  == 15
NeighborKnightAboveRight == 17
NeighborKnightBelowLeft  == 0 - 17
NeighborKnightBelowRight == 0 - 15
NeighborKnightLeftAbove  == 6
NeighborKnightLeftBelow  == 0 - 10
NeighborKnightRightAbove == 10
NeighborKnightRightBelow == 0 - 6

Neighbors ==
  { NeighborAbove, NeighborAboveLeft, NeighborAboveRight, NeighborBelow,
    NeighborBelowLeft, NeighborBelowRight, NeighborLeft, NeighborRight,
    NeighborKnightAboveLeft, NeighborKnightAboveRight, NeighborKnightBelowLeft,
    NeighborKnightBelowRight, NeighborKnightLeftAbove, NeighborKnightLeftBelow,
    NeighborKnightRightAbove, NeighborKnightRightBelow }

\* Board.getNeighborSquare: the file and rank edge tests of the source, then
\* the index arithmetic with its range test.
getNeighborSquare(sq, n) ==
  IF sq = NoSquare THEN NoSquare
  ELSE IF FileOf(sq) = fileA /\ n \in {NeighborAboveLeft, NeighborBelowLeft, NeighborLeft}
    THEN NoSquare
  ELSE IF FileOf(sq) = fileB /\ n \in {NeighborKnightLeftAbove, NeighborKnightLeftBelow}
    THEN NoSquare
  ELSE IF FileOf(sq) = fileG /\ n \in {NeighborKnightRightAbove, NeighborKnightRightBelow}
    THEN NoSquare
  ELSE IF FileOf(sq) = fileH /\ n \in {NeighborAboveRight, NeighborBelowRight, NeighborRight}
    THEN NoSquare
  ELSE IF RankOf(sq) = 1 /\ n \in {NeighborBelow, NeighborBelowLeft, NeighborBelowRight,
                                   NeighborKnightLeftBelow, NeighborKnightRightBelow,
                                   NeighborKnightBelowLeft, NeighborKnightBelowRight}
    THEN NoSquare
  ELSE IF RankOf(sq) = 8 /\ n \in {NeighborAbove, NeighborAboveLeft, NeighborAboveRight,
                                   NeighborKnightLeftAbove, NeighborKnightRightAbove,
                                   NeighborKnightAboveLeft, NeighborKnightAboveRight}
    THEN NoSquare
  ELSE IF sq + n < 0 \/ sq + n >= 64 THEN NoSquare
  ELSE sq + n

\* The neighbour relation tabulated once (the squares never change).
NeighborTable == [sq \in SquareIdx |-> [n \in Neighbors |-> getNeighborSquare(sq, n)]]

Nb(sq, n) == IF sq = NoSquare THEN NoSquare ELSE NeighborTable[sq][n]

\* Square.name(): file letter then rank digit.
name(sq) == <<FileChars[FileOf(sq) + 1], Digits[RankOf(sq) + 1]>>


(***************************************************************************)
(* The board.  A board value b is a record                                 *)
(*   Squares        : [SquareIdx -> piece id]   (Square.Piece, NoPiece=nil)*)
(*   Pieces         : sequence of Piece objects, a piece id indexes it     *)
(*   LastMovedPiece : piece id or NoPiece.                                 *)
(***************************************************************************)
PieceAt(b, sq) == b.Pieces[b.Squares[sq]]

\* Names a value once for the expression F that uses it.
With(v, F(_)) == CHOOSE y \in {F(x) : x \in {v}} : TRUE

RECURSIVE Flatten(_)
Flatten(ss) == IF ss = <<>> THEN <<>> ELSE Head(ss) \o Flatten(Tail(ss))

\* CreatePieceValidator: the movement rules per kind.
CreatePieceValidator(pt) ==
  LET none == [allowBackward |-> FALSE, allowDiagonal |-> FALSE, allowForward |-> FALSE,
               allowHorizontal |-> FALSE, repeat |-> 1, pieceType |-> pt]
  IN CASE pt = pieceBishop -> [none EXCEPT !.allowDiagonal = TRUE, !.repeat = 8]
       [] pt = pieceKing   -> [none EXCEPT !.allowBackward = TRUE, !.allowDiagonal = TRUE,
                                           !.allowForward = TRUE, !.allowHorizontal = TRUE]
       [] pt = pieceKnight -> none
       [] pt = piecePawn   -> [none EXCEPT !.allowForward = TRUE]
       [] pt = pieceQueen  -> [none EXCEPT !.allowBackward = TRUE, !.allowDiagonal = TRUE,
                                           !.allowForward = TRUE, !.allowHorizontal = TRUE,
                                           !.repeat = 8]
       [] pt = pieceRook   -> [none EXCEPT !.allowBackward = TRUE, !.allowForward = TRUE,
                                           !.allowHorizontal = TRUE, !.repeat = 8]

\* findMoveOptions (the closure of pieceValidator.Check): walk from `current`
\* in `direction`, at most v.repeat steps, stopping at the first piece.
RECURSIVE findMoveOptions(_, _, _, _, _, _)
findMoveOptions(b, v, piece, current, direction, steps) ==
  IF current = NoSquare \/ steps >= v.repeat THEN <<>>
  ELSE LET occ     == b.Squares[current]
           block   == occ # NoPiece /\ (piece.Type = piecePawn \/ b.Pieces[occ].Side = piece.Side)
           capture == occ # NoPiece /\ ~block
       IN (IF ~block THEN <<current>> ELSE <<>>) \o
          (IF capture \/ block THEN <<>>
           ELSE findMoveOptions(b, v, piece, Nb(current, direction), direction, steps + 1))

\* knightSpecial: the eight L-jumps, each a diagonal step then an orthogonal one.
knightSpecial(b, origin, piece) ==
  LET aL == Nb(origin, NeighborAboveLeft)
      aR == Nb(origin, NeighborAboveRight)
      bL == Nb(origin, NeighborBelowLeft)
      bR == Nb(origin, NeighborBelowRight)
      cndts ==
        (IF aL # NoSquare THEN <<Nb(aL, NeighborAbove), Nb(aL, NeighborLeft)>> ELSE <<>>) \o
        (IF aR # NoSquare THEN <<Nb(aR, NeighborAbove), Nb(aR, NeighborRight)>> ELSE <<>>) \o
        (IF bL # NoSquare THEN <<Nb(bL, NeighborBelow), Nb(bL, NeighborLeft)>> ELSE <<>>) \o
        (IF bR # NoSquare THEN <<Nb(bR, NeighborBelow), Nb(bR, NeighborRight)>> ELSE <<>>)
      ok(sq) == sq # NoSquare /\
                (b.Squares[sq] = NoPiece \/ b.Pieces[b.Squares[sq]].Side # piece.Side)
  IN SelectSeq(cndts, ok)

\* pawnSpecial, part 1: the diagonal captures.
pawnCaptures(b, origin, piece) ==
  LET dL == IF piece.Side = sideWhite THEN Nb(origin, NeighborAboveLeft)
                                      ELSE Nb(origin, NeighborBelowLeft)
      dR == IF piece.Side = sideWhite THEN Nb(origin, NeighborAboveRight)
                                      ELSE Nb(origin, NeighborBelowRight)
      ok(sq) == sq # NoSquare /\ b.Squares[sq] # NoPiece /\
                b.Pieces[b.Squares[sq]].Side # piece.Side
  IN SelectSeq(<<dL, dR>>, ok)

\* pawnSpecial's two-square push without the test that the far square is
\* empty.
pawnDoublePushOntoPiece(b, origin, piece, dests) ==
  IF piece.MoveCount = 0 /\ Len(dests) > 0
  THEN LET ff == dests[1]
       IN IF b.Squares[ff] = NoPiece /\ (RankOf(origin) = 7 \/ RankOf(origin) = 2)
          THEN LET fD == IF piece.Side = sideWhite THEN NeighborAbove ELSE NeighborBelow
                   sf == Nb(ff, fD)
               IN IF sf # NoSquare THEN <<sf>> ELSE <<>>
          ELSE <<>>
  ELSE <<>>

\* pawnSpecial, part 2: the initial two-square push, decided on the first
\* destination collected so far.
pawnDoublePush(b, origin, piece, dests) ==
  IF piece.MoveCount = 0 /\ Len(dests) > 0
  THEN LET ff == dests[1]
       IN IF b.Squares[ff] = NoPiece /\ (RankOf(origin) = 7 \/ RankOf(origin) = 2)
          THEN LET fD == IF piece.Side = sideWhite THEN NeighborAbove ELSE NeighborBelow
                   sf == Nb(ff, fD)
               IN IF sf # NoSquare /\ b.Squares[sf] = NoPiece THEN <<sf>> ELSE <<>>
          ELSE <<>>
  ELSE <<>>

\* pawnSpecial, part 3: en passant.
pawnEnPassant(b, origin, piece) ==
  LET rnk == IF piece.Side = sideBlack THEN 4 ELSE 5
      ok(adj) ==
        /\ adj # NoSquare
        /\ b.Squares[adj] # NoPiece
        /\ b.Pieces[b.Squares[adj]].Type = piecePawn
        /\ b.Pieces[b.Squares[adj]].Side # piece.Side
        /\ b.Pieces[b.Squares[adj]].MoveCount = 1
        /\ b.LastMovedPiece = b.Squares[adj]
      target(adj) ==
        Nb(adj, IF b.Pieces[b.Squares[adj]].Side = sideBlack THEN NeighborAbove
                                                            ELSE NeighborBelow)
      one(adj) == IF ok(adj) /\ target(adj) # NoSquare THEN <<target(adj)>> ELSE <<>>
  IN IF RankOf(origin) # rnk THEN <<>>
     ELSE one(Nb(origin, NeighborLeft)) \o one(Nb(origin, NeighborRight))

pawnSpecial(b, origin, piece, dests) ==
  With(dests \o pawnCaptures(b, origin, piece), LAMBDA d1 :
    d1 \o pawnDoublePush(b, origin, piece, d1) \o pawnEnPassant(b, origin, piece))

\* pieceValidator.Check for the validator of the origin piece's own kind:
\* the pseudo-legal destinations, in the order the source collects them.
Check(b, origin) ==
  With(PieceAt(b, origin), LAMBDA piece :
  With(CreatePieceValidator(piece.Type), LAMBDA v :
  With(IF piece.Side = sideWhite THEN NeighborAbove ELSE NeighborBelow, LAMBDA forward :
  With(IF piece.Side = sideWhite THEN NeighborBelow ELSE NeighborAbove, LAMBDA backward :
  With((IF v.allowForward THEN <<forward>> ELSE <<>>) \o
       (IF v.allowBackward THEN <<backward>> ELSE <<>>) \o
       (IF v.allowHorizontal THEN <<NeighborLeft, NeighborRight>> ELSE <<>>) \o
       (IF v.allowDiagonal
        THEN <<NeighborAboveLeft, NeighborAboveRight, NeighborBelowLeft, NeighborBelowRight>>
        ELSE <<>>), LAMBDA ds :
  With(Flatten([i \in 1 .. Len(ds) |->
                  findMoveOptions(b, v, piece, Nb(origin, ds[i]), ds[i], 0)]), LAMBDA lines :
    CASE piece.Type = pieceKnight -> lines \o knightSpecial(b, origin, piece)
      [] piece.Type = piecePawn   -> pawnSpecial(b, origin, piece, lines)
      [] OTHER                    -> lines))))))

InSeq(x, s) == \E i \in 1 .. Len(s) : s[i] = x

\* Board.getSquares(sd): the squares holding a piece of side sd, in index order.
getSquares(b, sd) ==
  LET has(sq) == b.Squares[sq] # NoPiece /\ b.Pieces[b.Squares[sq]].Side = sd
  IN SelectSeq([i \in 1 .. 64 |-> i - 1], has)

(***************************************************************************)
(* Board.Move.  MoveOnSquares is the mutation of the squares together with *)
(* the MoveEvent it builds (castle and en-passant inference); the counters *)
(* and events of a committed move are added by BoardMove below.            *)
(***************************************************************************)
NoMove ==
  [Algebraic |-> <<>>, CapturedPiece |-> NoPiece, Castle |-> FALSE, EnPassant |-> FALSE,
   Piece |-> NoPiece, PostSquare |-> NoSquare, PrevSquare |-> NoSquare,
   Promotion |-> FALSE, RookSource |-> NoSquare, RookDestination |-> NoSquare,
   EnPassantCaptureSquare |-> NoSquare, hashCode |-> <<>>, prevMoveCount |-> 0,
   simulate |-> FALSE, undone |-> FALSE]

\* Castle inference of Board.Move: a king that has not moved, going to the g- or c-file.
InferCastle(piece, prevMoveCount, src, dst) ==
  piece.Type = pieceKing /\ prevMoveCount = 0 /\ (FileOf(dst) = fileG \/ FileOf(dst) = fileC)

MoveOnSquares(b, src, dst, sim, ntn) ==
  LET sq0    == b.Squares
      pid    == sq0[src]
      piece  == b.Pieces[pid]
      cap0   == sq0[dst]
      sq1    == [sq0 EXCEPT ![dst] = pid, ![src] = NoPiece]
      castle == InferCastle(piece, piece.MoveCount, src, dst)
      ep     == piece.Type = piecePawn /\ cap0 = NoPiece /\ FileOf(dst) # FileOf(src)
      cs     == GetSquare(FileOf(dst), RankOf(src))
      epHit  == ep /\ cs # NoSquare
      cap    == IF epHit THEN sq1[cs] ELSE cap0
      sq2    == IF epHit THEN [sq1 EXCEPT ![cs] = NoPiece] ELSE sq1
      rs     == IF FileOf(dst) = fileG THEN GetSquare(fileH, RankOf(dst))
                                       ELSE GetSquare(fileA, RankOf(dst))
      rd     == IF FileOf(dst) = fileG THEN GetSquare(fileF, RankOf(dst))
                                       ELSE GetSquare(fileD, RankOf(dst))
      castle2 == castle /\ ~(rs = NoSquare \/ sq2[rs] = NoPiece)
      sq3    == IF castle2 /\ rd # NoSquare
                THEN [sq2 EXCEPT ![rd] = sq2[rs], ![rs] = NoPiece]
                ELSE sq2
  IN [Squares |-> sq3,
      mv |-> [NoMove EXCEPT
                !.Algebraic = ntn, !.CapturedPiece = cap, !.Castle = castle2,
                !.EnPassant = ep, !.Piece = pid, !.PostSquare = dst, !.PrevSquare = src,
                !.RookSource = IF castle2 THEN rs ELSE NoSquare,
                !.RookDestination = IF castle2 THEN rd ELSE NoSquare,
                !.EnPassantCaptureSquare = IF epHit THEN cs ELSE NoSquare,
                !.prevMoveCount = piece.MoveCount, !.simulate = sim]]

\* The undo closure of Board.Move, on the squares: the assignments in the
\* order of the source.
UndoOnSquares(sq0, mv) ==
  LET sq1 == [sq0 EXCEPT ![mv.PrevSquare] = mv.Piece]
      sq2 == [sq1 EXCEPT ![mv.PostSquare] = mv.CapturedPiece]
      sq3 == IF mv.EnPassant /\ mv.EnPassantCaptureSquare # NoSquare
             THEN [[sq2 EXCEPT ![mv.EnPassantCaptureSquare] = mv.CapturedPiece]
                        EXCEPT ![mv.PostSquare] = NoPiece]
             ELSE sq2
      sq4 == IF mv.Castle /\ mv.RookSource # NoSquare /\ mv.RookDestination # NoSquare
             THEN [[sq3 EXCEPT ![mv.RookSource] = sq3[mv.RookDestination]]
                        EXCEPT ![mv.RookDestination] = NoPiece]
             ELSE sq3
  IN sq4

\* A simulated move: Board.Move(src, dst, true); fails when the source is empty.
Simulate(b, src, dst) ==
  IF src = NoSquare \/ dst = NoSquare \/ b.Squares[src] = NoPiece
  THEN [err |-> TRUE, b |-> b, mv |-> NoMove]
  ELSE LET r == MoveOnSquares(b, src, dst, TRUE, <<>>)
       IN [err |-> FALSE, b |-> [b EXCEPT !.Squares = r.Squares], mv |-> r.mv]

\* moveResult.Undo() of a simulated move.
UndoSimulated(b, mv) == [b EXCEPT !.Squares = UndoOnSquares(b.Squares, mv)]

(***************************************************************************)
(* The board validator (boardValidator): attackers, castling, king safety. *)
(***************************************************************************)
\* checkDirection of findAttackers: the first piece met along a line attacks
\* the target when it is an enemy whose own destinations include the target.
RECURSIVE checkDirection(_, _, _, _)
checkDirection(b, target, current, nb) ==
  IF current = NoSquare THEN <<>>
  ELSE IF b.Squares[current] # NoPiece
    THEN IF PieceAt(b, current).Side # PieceAt(b, target).Side /\ InSeq(target, Check(b, current))
         THEN <<[attacked |-> TRUE, piece |-> b.Squares[current], square |-> current]>>
         ELSE <<>>
  ELSE checkDirection(b, target, Nb(current, nb), nb)

\* checkKnight of findAttackers.
checkKnight(b, target, nb) ==
  LET current == Nb(target, nb)
  IN IF current = NoSquare \/ b.Squares[current] = NoPiece THEN <<>>
     ELSE IF PieceAt(b, current).Type # pieceKnight \/
             PieceAt(b, current).Side = PieceAt(b, target).Side THEN <<>>
     ELSE IF InSeq(target, Check(b, current))
       THEN <<[attacked |-> TRUE, piece |-> b.Squares[current], square |-> current]>>
       ELSE <<>>

directions ==
  <<NeighborAbove, NeighborAboveRight, NeighborRight, NeighborBelowRight,
    NeighborBelow, NeighborBelowLeft, NeighborLeft, NeighborAboveLeft>>

knightDirections ==
  <<NeighborKnightAboveRight, NeighborKnightRightAbove, NeighborKnightBelowRight,
    NeighborKnightRightBelow, NeighborKnightBelowLeft, NeighborKnightLeftBelow,
    NeighborKnightAboveLeft, NeighborKnightLeftAbove>>

\* boardValidator.findAttackers: one attackContext per attacker, lines first.
findAttackers(b, target) ==
  IF target = NoSquare \/ b.Squares[target] = NoPiece THEN <<>>
  ELSE Flatten([i \in 1 .. 8 |-> checkDirection(b, target, Nb(target, directions[i]), directions[i])])
       \o Flatten([i \in 1 .. 8 |-> checkKnight(b, target, knightDirections[i])])

isSquareAttacked(b, sq) == Len(findAttackers(b, sq)) > 0

\* A list of potentialMoves is a sequence of [origin, destinationSquares].
getValidSquares(validMoves, src) ==
  LET hits == SelectSeq(validMoves, LAMBDA vm : vm.origin = src)
  IN IF Len(hits) > 0 THEN [found |-> TRUE, squares |-> hits[1].destinationSquares]
                      ELSE [found |-> FALSE, squares |-> <<>>]

\* castleSide without the test of the square the king passes over: only the
\* landing square is simulated and tested.
castleSideLandingOnly(st, rank, rookFile, between, through, landing) ==
  LET e    == GetSquare(fileE, rank)
      rook == GetSquare(rookFile, rank)
      rookOk == /\ st.b.Squares[rook] # NoPiece
                /\ PieceAt(st.b, rook).Type = pieceRook
                /\ PieceAt(st.b, rook).MoveCount = 0
      empty  == \A f \in between : st.b.Squares[GetSquare(f, rank)] = NoPiece
      added(cur) ==
        [i \in 1 .. Len(st.validMoves) |->
           IF st.validMoves[i].origin = e
           THEN [st.validMoves[i] EXCEPT
                   !.destinationSquares = Append(cur.squares, GetSquare(landing, rank))]
           ELSE st.validMoves[i]]
  IN IF ~(rookOk /\ empty) THEN st
     ELSE With(Simulate(st.b, e, GetSquare(landing, rank)), LAMBDA res2 :
          With(UndoSimulated(res2.b, res2.mv), LAMBDA b2 :
          With(getValidSquares(st.validMoves, e), LAMBDA cur :
            IF ~isSquareAttacked(res2.b, GetSquare(landing, rank)) /\ cur.found
            THEN [b |-> b2, validMoves |-> added(cur)]
            ELSE [st EXCEPT !.b = b2])))

\* One side of evaluateCastle: `rookFile` holds a rook that has not moved, the
\* squares in `between` are empty, and the king, simulated onto `through` and
\* then onto `landing`, is attacked on neither.  The board is threaded through
\* the two simulations.  Result: the board and the destinations to add.
castleSide(st, rank, rookFile, between, through, landing) ==
  LET e    == GetSquare(fileE, rank)
      rook == GetSquare(rookFile, rank)
      rookOk == /\ st.b.Squares[rook] # NoPiece
                /\ PieceAt(st.b, rook).Type = pieceRook
                /\ PieceAt(st.b, rook).MoveCount = 0
      empty  == \A f \in between : st.b.Squares[GetSquare(f, rank)] = NoPiece
      added(cur) ==
        [i \in 1 .. Len(st.validMoves) |->
           IF st.validMoves[i].origin = e
           THEN [st.validMoves[i] EXCEPT
                   !.destinationSquares = Append(cur.squares, GetSquare(landing, rank))]
           ELSE st.validMoves[i]]
  IN IF ~(rookOk /\ empty) THEN st
     ELSE With(Simulate(st.b, e, GetSquare(through, rank)), LAMBDA res1 :
          With(UndoSimulated(res1.b, res1.mv), LAMBDA b1 :
            IF isSquareAttacked(res1.b, GetSquare(through, rank)) THEN [st EXCEPT !.b = b1]
            ELSE With(Simulate(b1, e, GetSquare(landing, rank)), LAMBDA res2 :
                 With(UndoSimulated(res2.b, res2.mv), LAMBDA b2 :
                 With(getValidSquares(st.validMoves, e), LAMBDA cur :
                   IF ~isSquareAttacked(res2.b, GetSquare(landing, rank)) /\ cur.found
                   THEN [b |-> b2, validMoves |-> added(cur)]
                   ELSE [st EXCEPT !.b = b2])))))

\* The two sides in the order evaluateCastle tries them: queen side, king side.
castleSides ==
  <<[rookFile |-> fileA, between |-> {fileB, fileC, fileD}, through |-> fileD, landing |-> fileC],
    [rookFile |-> fileH, between |-> {fileF, fileG}, through |-> fileF, landing |-> fileG]>>

RECURSIVE castleFrom(_, _, _)
castleFrom(st, rank, i) ==
  IF i > Len(castleSides) THEN st
  ELSE castleFrom(castleSide(st, rank, castleSides[i].rookFile, castleSides[i].between,
                             castleSides[i].through, castleSides[i].landing),
                  rank, i + 1)

\* boardValidator.evaluateCastle for the side to move.
evaluateCastle(b, side, validMoves) ==
  With(GetSquare(fileE, IF side = sideBlack THEN 8 ELSE 1), LAMBDA kingSquare :
    IF b.Squares[kingSquare] = NoPiece THEN [b |-> b, validMoves |-> validMoves]
    ELSE IF PieceAt(b, kingSquare).Type # pieceKing \/
            PieceAt(b, kingSquare).MoveCount # 0 THEN [b |-> b, validMoves |-> validMoves]
    ELSE IF isSquareAttacked(b, kingSquare) THEN [b |-> b, validMoves |-> validMoves]
    ELSE castleFrom([b |-> b, validMoves |-> validMoves],
                    IF side = sideBlack THEN 8 ELSE 1, 1))

\* The body of filterKingAttack's inner loop for one destination: simulate,
\* test the king (on the destination when the king itself moved), undo.  A
\* move the board refuses is skipped.  Result: the board left behind and
\* whether the destination is kept.
kingSafe(b, kingSquare, origin, dest) ==
  With(Simulate(b, origin, dest), LAMBDA res :
    IF res.err THEN [b |-> b, keep |-> <<FALSE>>]
    ELSE [b |-> UndoSimulated(res.b, res.mv),
          keep |-> <<~isSquareAttacked(res.b, IF res.b.Pieces[res.mv.Piece].Type = pieceKing
                                              THEN dest ELSE kingSquare)>>])

\* The two nested loops of filterKingAttack run over pairs[lo .. hi] in order,
\* the board threaded from each simulation to the next.  The range is split
\* in halves so that the evaluation nests only logarithmically.
RECURSIVE filterPairs(_, _, _, _, _)
filterPairs(b, kingSquare, pairs, lo, hi) ==
  IF lo > hi THEN [b |-> b, keep |-> <<>>]
  ELSE IF lo = hi THEN kingSafe(b, kingSquare, pairs[lo].origin, pairs[lo].dest)
  ELSE With(filterPairs(b, kingSquare, pairs, lo, (lo + hi) \div 2), LAMBDA left :
       With(filterPairs(left.b, kingSquare, pairs, ((lo + hi) \div 2) + 1, hi), LAMBDA right :
         [b |-> right.b, keep |-> left.keep \o right.keep]))

\* boardValidator.filterKingAttack: the (origin, destination) candidates in
\* loop order, each tested by kingSafe; an origin stays with the destinations
\* kept for it, when there are any.
filterKingAttack(b, kingSquare, moves) ==
  With(Flatten([i \in 1 .. Len(moves) |->
                  [j \in 1 .. Len(moves[i].destinationSquares) |->
                     [origin |-> moves[i].origin, dest |-> moves[i].destinationSquares[j],
                      at |-> i]]]), LAMBDA pairs :
  With(filterPairs(b, kingSquare, pairs, 1, Len(pairs)), LAMBDA res :
    [b |-> res.b,
     validMoves |->
       SelectSeq([i \in 1 .. Len(moves) |->
                    [origin |-> moves[i].origin,
                     destinationSquares |->
                       With(SelectSeq([k \in 1 .. Len(pairs) |-> k],
                                      LAMBDA k : pairs[k].at = i /\ res.keep[k]),
                            LAMBDA idx : [n \in 1 .. Len(idx) |-> pairs[idx[n]].dest])]],
                 LAMBDA vm : Len(vm.destinationSquares) > 0)]))

\* The king square boardValidator.Check remembers: the last king of the side
\* in index order (NoSquare when the side has none).
lastKingSquare(b, side) ==
  LET ks == SelectSeq(getSquares(b, side), LAMBDA sq : PieceAt(b, sq).Type = pieceKing)
  IN IF Len(ks) = 0 THEN NoSquare ELSE ks[Len(ks)]

\* boardValidator.Check: pseudo-legal moves of the side to move, castling,
\* the king-safety filter, and the check / checkmate events (one per attacker).
boardValidatorCheck(b, side) ==
  With(getSquares(b, side), LAMBDA squares :
  With(SelectSeq([i \in 1 .. Len(squares) |->
                    [origin |-> squares[i], destinationSquares |-> Check(b, squares[i])]],
                 LAMBDA pm : Len(pm.destinationSquares) > 0), LAMBDA pseudo :
  With(lastKingSquare(b, side), LAMBDA kingSquare :
     With(evaluateCastle(b, side, pseudo), LAMBDA cst :
     With(filterKingAttack(cst.b, kingSquare, cst.validMoves), LAMBDA flt :
     With(findAttackers(flt.b, kingSquare), LAMBDA attackers :
       [b |-> flt.b, validMoves |-> flt.validMoves,
        events |-> [i \in 1 .. Len(attackers) |->
                      IF Len(flt.validMoves) = 0 THEN "checkmate" ELSE "check"]]))))))

(***************************************************************************)
(* Strings: strings.Split, strconv.Itoa, strconv.Atoi, strings.ReplaceAll  *)
(* of single characters, strings.TrimSpace (emptiness only).               *)
(***************************************************************************)
\* strings.Split(s, sep) for a one-character separator: always at least one part.
RECURSIVE SplitFrom(_, _, _, _)
SplitFrom(s, sep, i, cur) ==
  IF i > Len(s) THEN <<cur>>
  ELSE IF s[i] = sep THEN <<cur>> \o SplitFrom(s, sep, i + 1, <<>>)
  ELSE SplitFrom(s, sep, i + 1, Append(cur, s[i]))

Split(s, sep) == SplitFrom(s, sep, 1, <<>>)

DigitValue(ch) == CHOOSE d \in 0 .. 9 : Digits[d + 1] = ch
IsDigit(ch) == \E d \in 0 .. 9 : Digits[d + 1] = ch

\* strconv.Itoa
RECURSIVE ItoaNat(_)
ItoaNat(n) == IF n < 10 THEN <<Digits[n + 1]>> ELSE Append(ItoaNat(n \div 10), Digits[(n % 10) + 1])

Itoa(n) == IF n < 0 THEN <<"-">> \o ItoaNat(0 - n) ELSE ItoaNat(n)

\* strconv.Atoi with the error dropped (the caller ignores it): an optional
\* sign and at least one decimal digit give the value, anything else gives 0.
RECURSIVE AtoiDigits(_, _, _)
AtoiDigits(s, i, acc) ==
  IF i > Len(s) THEN acc ELSE AtoiDigits(s, i + 1, acc * 10 + DigitValue(s[i]))

Atoi(s) ==
  LET signed == Len(s) > 0 /\ s[1] \in {"+", "-"}
      body   == IF signed THEN Tail(s) ELSE s
      ok     == Len(body) > 0 /\ \A i \in 1 .. Len(body) : IsDigit(body[i])
  IN IF ~ok THEN 0
     ELSE IF signed /\ s[1] = "-" THEN 0 - AtoiDigits(body, 1, 0)
     ELSE AtoiDigits(body, 1, 0)

\* strings.ReplaceAll(s, old, new) for a one-character old and a new of
\* length 0 or 1 (new is a sequence).
ReplaceAll(s, old, new) ==
  Flatten([i \in 1 .. Len(s) |-> IF s[i] = old THEN new ELSE <<s[i]>>])

\* strings.TrimSpace(s) == "": only white space.
IsBlank(s) == \A i \in 1 .. Len(s) : s[i] = " "

(***************************************************************************)
(* createBoard and loadBoard.                                              *)
(***************************************************************************)
\* The kind createBoard puts on file index f of a back rank.
backRankKind(f) ==
  CASE f \in {0, 7} -> pieceRook
    [] f \in {1, 6} -> pieceKnight
    [] f \in {2, 5} -> pieceBishop
    [] f = 3        -> pieceQueen
    [] OTHER        -> pieceKing

\* createBoard: the standard start; pieces are created in square order, so
\* piece ids 1..16 are White's (ranks 1, 2) and 17..32 Black's (ranks 7, 8).
createBoard ==
  LET pieceOf(i) ==
        CASE RankOf(i) = 1 -> newPiece(backRankKind(FileOf(i)), sideWhite)
          [] RankOf(i) = 2 -> newPiece(piecePawn, sideWhite)
          [] RankOf(i) = 7 -> newPiece(piecePawn, sideBlack)
          [] RankOf(i) = 8 -> newPiece(backRankKind(FileOf(i)), sideBlack)
      idOf(i) == CASE RankOf(i) \in {1, 2} -> i + 1
                   [] RankOf(i) \in {7, 8} -> i - 31
                   [] OTHER -> NoPiece
  IN [Squares |-> [i \in SquareIdx |-> idOf(i)],
      Pieces  |-> <<>> \o [k \in 1 .. 32 |-> pieceOf(IF k <= 16 THEN k - 1 ELSE k + 31)],
      LastMovedPiece |-> NoPiece]

\* The piece a FEN placement character stands for (loadBoard's switch).
FenPieceChars == {"p", "P", "n", "N", "b", "B", "r", "R", "q", "Q", "k", "K"}

fenPiece(ch) ==
  CASE ch = "p" -> newPiece(piecePawn, sideBlack)
    [] ch = "P" -> newPiece(piecePawn, sideWhite)
    [] ch = "n" -> newPiece(pieceKnight, sideBlack)
    [] ch = "N" -> newPiece(pieceKnight, sideWhite)
    [] ch = "b" -> newPiece(pieceBishop, sideBlack)
    [] ch = "B" -> newPiece(pieceBishop, sideWhite)
    [] ch = "r" -> newPiece(pieceRook, sideBlack)
    [] ch = "R" -> newPiece(pieceRook, sideWhite)
    [] ch = "q" -> newPiece(pieceQueen, sideBlack)
    [] ch = "Q" -> newPiece(pieceQueen, sideWhite)
    [] ch = "k" -> newPiece(pieceKing, sideBlack)
    [] ch = "K" -> newPiece(pieceKing, sideWhite)

\* One rank row of loadBoard: the cells read so far (a piece character, or
\* "" for an empty square).  A digit run that passes the eighth file indexes
\* "abcdefgh" out of range: the program panics.
RECURSIVE loadRow(_, _, _)
loadRow(row, i, cells) ==
  IF i > Len(row)
  THEN IF Len(cells) # 8 THEN [status |-> "error", cells |-> cells]
                         ELSE [status |-> "ok", cells |-> cells]
  ELSE LET ch == row[i]
       IN IF ch \in {"1", "2", "3", "4", "5", "6", "7", "8"}
          THEN IF Len(cells) + DigitValue(ch) > 8
               THEN [status |-> "panic", cells |-> cells]
               ELSE loadRow(row, i + 1, cells \o [k \in 1 .. DigitValue(ch) |-> ""])
          ELSE IF Len(cells) >= 8 THEN [status |-> "error", cells |-> cells]
          ELSE IF ch \notin FenPieceChars THEN [status |-> "error", cells |-> cells]
          ELSE loadRow(row, i + 1, Append(cells, ch))

\* The rows of loadBoard, first (rank 8) to last: stops at the first row that
\* fails.
RECURSIVE loadRows(_, _)
loadRows(rs, ri) ==
  IF ri > Len(rs) THEN [status |-> "ok", rows |-> <<>>]
  ELSE LET one == loadRow(rs[ri], 1, <<>>)
       IN IF one.status # "ok" THEN [status |-> one.status, rows |-> <<>>]
          ELSE LET rest == loadRows(rs, ri + 1)
               IN [status |-> rest.status, rows |-> <<one.cells>> \o rest.rows]

\* loadBoard(fen): status "ok" with the board, "error", or "panic".
loadBoard(fen) ==
  LET prts == Split(fen, " ")
      rs   == Split(prts[1], "/")
      emptyBoard == [Squares |-> [i \in SquareIdx |-> NoPiece], Pieces |-> <<>>,
                     LastMovedPiece |-> NoPiece]
  IN IF Len(rs) # 8 THEN [status |-> "error", b |-> emptyBoard]
     ELSE LET ld == loadRows(rs, 1)
          IN IF ld.status # "ok" THEN [status |-> ld.status, b |-> emptyBoard]
             ELSE LET cellAt(k) == ld.rows[((k - 1) \div 8) + 1][((k - 1) % 8) + 1]
                      \* k = 1..64 in reading order: rank 8 first, files a..h
                      order == SelectSeq([k \in 1 .. 64 |-> k], LAMBDA k : cellAt(k) # "")
                      sqOf(k) == (8 - ((k - 1) \div 8) - 1) * 8 + ((k - 1) % 8)
                      kOf(sq) == (8 - RankOf(sq)) * 8 + FileOf(sq) + 1
                      idAt(sq) == IF cellAt(kOf(sq)) = "" THEN NoPiece
                                  ELSE CHOOSE n \in 1 .. Len(order) : order[n] = kOf(sq)
                  IN [status |-> "ok",
                      b |-> [Squares |-> [sq \in SquareIdx |-> idAt(sq)],
                             Pieces  |-> <<>> \o [n \in 1 .. Len(order) |->
                                                    fenPiece(cellAt(order[n]))],
                             LastMovedPiece |-> NoPiece]]

\* Board.fenPiecePlacement: ranks 8 to 1, empties run-length encoded.
RECURSIVE fenRank(_, _, _, _)
fenRank(b, r, f, ec) ==
  IF f > 7 THEN (IF ec > 0 THEN Itoa(ec) ELSE <<>>)
  ELSE LET sq == GetSquare(f, r)
       IN IF b.Squares[sq] = NoPiece THEN fenRank(b, r, f + 1, ec + 1)
          ELSE (IF ec > 0 THEN Itoa(ec) ELSE <<>>) \o <<toFEN(PieceAt(b, sq))>> \o
               fenRank(b, r, f + 1, 0)

fenPiecePlacement(b) ==
  Flatten([k \in 1 .. 8 |-> fenRank(b, 9 - k, 0, 0) \o (IF 9 - k > 1 THEN <<"/">> ELSE <<>>)])

\* Board.getSquareByName: nil unless the name is two characters naming a square.
getSquareByName(nm) ==
  IF Len(nm) # 2 THEN NoSquare
  ELSE IF ~(\E f \in 0 .. 7 : FileChars[f + 1] = nm[1]) \/ ~IsDigit(nm[2]) THEN NoSquare
  ELSE GetSquare(CHOOSE f \in 0 .. 7 : FileChars[f + 1] = nm[1], DigitValue(nm[2]))

(***************************************************************************)
(* The Game.  A game value g is a record                                   *)
(*   b              : the Board                                            *)
(*   moveEvents     : every MoveEvent a committed Board.Move has returned  *)
(*                    (the objects the move handles point to); a handle is *)
(*                    an index into it                                     *)
(*   MoveHistory    : sequence of handles (pointers to MoveEvents)         *)
(*   CaptureHistory : sequence of piece ids                                *)
(*   cstl, enP, hmc, fmn, wf : the FEN metadata                            *)
(*   emitted        : the events emitted to the client's subscribers by    *)
(*                    the operation in progress, in emission order.        *)
(***************************************************************************)
\* getCurrentSide taking White for the first mover whatever the game says.
getCurrentSideWhiteFirst(g) ==
  IF Len(g.MoveHistory) % 2 = 0 THEN sideWhite ELSE sideBlack

\* Game.getCurrentSide
getCurrentSide(g) ==
  IF Len(g.MoveHistory) % 2 = 0
  THEN (IF g.wf THEN sideWhite ELSE sideBlack)
  ELSE (IF g.wf THEN sideBlack ELSE sideWhite)

\* Game.getHashCode: the canonical string of the occupied squares.  The
\* digest (md5, base64) of the source is taken to be collision free, so the
\* string stands for its digest.
getHashCode(b) ==
  LET occ == SelectSeq([i \in 1 .. 64 |-> i - 1], LAMBDA sq : b.Squares[sq] # NoPiece)
      one(sq) == name(sq) \o
                 <<IF PieceAt(b, sq).Side = sideWhite THEN "w" ELSE "b">> \o
                 Notation(PieceAt(b, sq).Type) \o
                 (IF PieceAt(b, sq).Type = piecePawn THEN <<"p">> ELSE <<>>)
  IN Flatten([i \in 1 .. Len(occ) |-> (IF i > 1 THEN <<"-">> ELSE <<>>) \o one(occ[i])])

\* The castling letters removed for a king move only.
castlingLostKingOnly(piece, prevSquare) ==
  IF piece.Type = pieceKing
  THEN (IF piece.Side = sideWhite THEN {"K", "Q"} ELSE {"k", "q"})
  ELSE {}

\* The castling letters recordMove removes for the moved piece.
castlingLost(piece, prevSquare) ==
  IF piece.Type = pieceKing
  THEN (IF piece.Side = sideWhite THEN {"K", "Q"} ELSE {"k", "q"})
  ELSE IF piece.Type = pieceRook
  THEN (IF FileOf(prevSquare) = fileA
        THEN (IF RankOf(prevSquare) = 1 THEN {"Q"}
              ELSE IF RankOf(prevSquare) = 8 THEN {"q"} ELSE {})
        ELSE IF FileOf(prevSquare) = fileH
        THEN (IF RankOf(prevSquare) = 1 THEN {"K"}
              ELSE IF RankOf(prevSquare) = 8 THEN {"k"} ELSE {})
        ELSE {})
  ELSE {}

\* The en-passant target taken to be the square the pawn lands on.
enPassantTargetLanding(piece, prevSquare, postSquare) ==
  IF piece.Type = piecePawn /\ piece.MoveCount = 1 /\
     (RankOf(postSquare) - RankOf(prevSquare)) \in {2, 0 - 2}
  THEN postSquare ELSE NoSquare

\* The en-passant target set for pushes up the board only.
enPassantTargetUpwardOnly(piece, prevSquare, postSquare) ==
  IF piece.Type = piecePawn /\ piece.MoveCount = 1 /\
     RankOf(postSquare) - RankOf(prevSquare) = 2
  THEN GetSquare(FileOf(prevSquare), RankOf(postSquare) - 1) ELSE NoSquare

\* The en-passant target recordMove sets: the square a pawn passed over on a
\* two-square first move, nil otherwise.
enPassantTarget(piece, prevSquare, postSquare) ==
  IF piece.Type = piecePawn /\ piece.MoveCount = 1
  THEN LET prvRnk == RankOf(prevSquare)
           dstRnk == RankOf(postSquare)
       IN IF dstRnk - prvRnk = 2 THEN GetSquare(FileOf(prevSquare), dstRnk - 1)
          ELSE IF prvRnk - dstRnk = 2 THEN GetSquare(FileOf(prevSquare), dstRnk + 1)
          ELSE NoSquare
  ELSE NoSquare

\* recordMove resetting the half-move clock on captures only.
recordMoveClockOnCaptures(g, mv) ==
  LET piece == g.b.Pieces[mv.Piece]
      mv1   == [mv EXCEPT !.hashCode = getHashCode(g.b)]
      h     == Len(g.moveEvents) + 1
      hist  == Append(g.MoveHistory, h)
      g1    == [g EXCEPT !.moveEvents = Append(g.moveEvents, mv1),
                         !.MoveHistory = hist,
                         !.CaptureHistory =
                            IF mv.CapturedPiece # NoPiece
                            THEN Append(g.CaptureHistory, mv.CapturedPiece)
                            ELSE g.CaptureHistory]
      lost  == castlingLost(piece, mv.PrevSquare)
  IN [g1 EXCEPT
        !.hmc  = IF mv.CapturedPiece # NoPiece THEN 0 ELSE g.hmc + 1,
        !.fmn  = IF g.fmn >= 1 /\ getCurrentSide(g1) = sideWhite THEN g.fmn + 1 ELSE g.fmn,
        !.cstl = SelectSeq(g.cstl, LAMBDA ch : ch \notin lost),
        !.enP  = enPassantTarget(piece, mv.PrevSquare, mv.PostSquare)]

\* Game.recordMove (the game's handler of the board's "move" event): mv is
\* the new MoveEvent, the board already shows the move.
recordMove(g, mv) ==
  LET piece == g.b.Pieces[mv.Piece]
      mv1   == [mv EXCEPT !.hashCode = getHashCode(g.b)]
      h     == Len(g.moveEvents) + 1
      hist  == Append(g.MoveHistory, h)
      g1    == [g EXCEPT !.moveEvents = Append(g.moveEvents, mv1),
                         !.MoveHistory = hist,
                         !.CaptureHistory =
                            IF mv.CapturedPiece # NoPiece
                            THEN Append(g.CaptureHistory, mv.CapturedPiece)
                            ELSE g.CaptureHistory]
      lost  == castlingLost(piece, mv.PrevSquare)
  IN [g1 EXCEPT
        !.hmc  = IF mv.CapturedPiece # NoPiece \/ piece.Type = piecePawn THEN 0 ELSE g.hmc + 1,
        !.fmn  = IF g.fmn >= 1 /\ getCurrentSide(g1) = sideWhite THEN g.fmn + 1 ELSE g.fmn,
        !.cstl = SelectSeq(g.cstl, LAMBDA ch : ch \notin lost),
        !.enP  = enPassantTarget(piece, mv.PrevSquare, mv.PostSquare)]

\* The events Board.Move emits after "move" for a committed move, in order.
moveEventsAfter(mv) ==
  (IF mv.CapturedPiece # NoPiece THEN <<"capture">> ELSE <<>>) \o
  (IF mv.Castle THEN <<"castle">> ELSE <<>>) \o
  (IF mv.EnPassant THEN <<"enPassant">> ELSE <<>>)

\* Game.move -> Board.Move(src, dst, false, notation): the committed move with
\* its events (the game's handlers run inside the emits).
GameMove(g, src, dst, ntn) ==
  IF src = NoSquare \/ dst = NoSquare \/ g.b.Squares[src] = NoPiece
  THEN [err |-> TRUE, g |-> g, handle |-> 0]
  ELSE LET r  == MoveOnSquares(g.b, src, dst, FALSE, ntn)
           b1 == [g.b EXCEPT !.Squares = r.Squares,
                             !.Pieces[r.mv.Piece].MoveCount = @ + 1,
                             !.LastMovedPiece = r.mv.Piece]
           g1 == recordMove([g EXCEPT !.b = b1], r.mv)
       IN [err |-> FALSE,
           g |-> [g1 EXCEPT !.emitted = g.emitted \o <<"move">> \o moveEventsAfter(r.mv)],
           handle |-> Len(g1.moveEvents)]

\* Game.promote that keeps the new piece's own MoveCount.
GamePromoteFreshCount(g, sq, p) ==
  IF sq = NoSquare \/ g.b.Squares[sq] = NoPiece
  THEN [err |-> TRUE, g |-> g]
  ELSE LET pid == Len(g.b.Pieces) + 1
           b1  == [g.b EXCEPT !.Pieces = Append(g.b.Pieces, p),
                              !.Squares[sq] = pid,
                              !.LastMovedPiece = pid]
           last == IF Len(g.MoveHistory) > 0 THEN g.MoveHistory[Len(g.MoveHistory)] ELSE 0
       IN [err |-> FALSE,
           g |-> [g EXCEPT !.b = b1,
                           !.emitted = Append(g.emitted, "promote"),
                           !.moveEvents =
                              IF last # 0 THEN [g.moveEvents EXCEPT ![last].Promotion = TRUE]
                              ELSE g.moveEvents]]

\* Game.promote -> Board.Promote(sq, p): p is a new piece object.
GamePromote(g, sq, p) ==
  IF sq = NoSquare \/ g.b.Squares[sq] = NoPiece
  THEN [err |-> TRUE, g |-> g]
  ELSE LET pid == Len(g.b.Pieces) + 1
           np  == [p EXCEPT !.MoveCount = PieceAt(g.b, sq).MoveCount]
           b1  == [g.b EXCEPT !.Pieces = Append(g.b.Pieces, np),
                              !.Squares[sq] = pid,
                              !.LastMovedPiece = pid]
           last == IF Len(g.MoveHistory) > 0 THEN g.MoveHistory[Len(g.MoveHistory)] ELSE 0
       IN [err |-> FALSE,
           g |-> [g EXCEPT !.b = b1,
                           !.emitted = Append(g.emitted, "promote"),
                           !.moveEvents =
                              IF last # 0 THEN [g.moveEvents EXCEPT ![last].Promotion = TRUE]
                              ELSE g.moveEvents]]

\* The game's handler of the board's "undo" event.
gameOnUndo(g, mv) ==
  LET hist == IF Len(g.MoveHistory) > 0
              THEN SubSeq(g.MoveHistory, 1, Len(g.MoveHistory) - 1) ELSE g.MoveHistory
      caps == IF mv.CapturedPiece # NoPiece /\ Len(g.CaptureHistory) > 0
              THEN SubSeq(g.CaptureHistory, 1, Len(g.CaptureHistory) - 1)
              ELSE g.CaptureHistory
  IN [g EXCEPT !.MoveHistory = hist,
               !.CaptureHistory = caps,
               !.b.LastMovedPiece =
                  IF Len(hist) > 0 THEN g.moveEvents[hist[Len(hist)]].Piece ELSE NoPiece,
               !.emitted = Append(g.emitted, "undo")]

\* The undo closure without its test of the undone flag.
BoardUndoUnguarded(g, h) ==
  LET mv == g.moveEvents[h]
      b1 == [g.b EXCEPT !.Squares = UndoOnSquares(g.b.Squares, mv),
                        !.Pieces[mv.Piece].MoveCount = mv.prevMoveCount,
                        !.LastMovedPiece = NoPiece]
      g1 == [g EXCEPT !.b = b1, !.moveEvents[h].undone = TRUE]
  IN [fired |-> TRUE, g |-> gameOnUndo(g1, g1.moveEvents[h])]

\* The undo closure of a committed move (handle h): nothing when the move is
\* already undone; otherwise the squares, the piece's MoveCount, the undone
\* flag, then the "undo" event with the game's handler.
BoardUndo(g, h) ==
  LET mv == g.moveEvents[h]
  IN IF mv.undone THEN [fired |-> FALSE, g |-> g]
     ELSE LET b1 == [g.b EXCEPT !.Squares = UndoOnSquares(g.b.Squares, mv),
                                !.Pieces[mv.Piece].MoveCount = mv.prevMoveCount,
                                !.LastMovedPiece = NoPiece]
              g1 == [g EXCEPT !.b = b1, !.moveEvents[h].undone = TRUE]
          IN [fired |-> TRUE, g |-> gameOnUndo(g1, g1.moveEvents[h])]

\* Game.fen: six fields joined by single spaces.
fen(g) ==
  fenPiecePlacement(g.b) \o <<" ">> \o
  <<IF getCurrentSide(g) = sideWhite THEN "w" ELSE "b">> \o <<" ">> \o
  g.cstl \o <<" ">> \o
  (IF g.enP # NoSquare THEN name(g.enP) ELSE <<"-">>) \o <<" ">> \o
  Itoa(g.hmc) \o <<" ">> \o
  Itoa(g.fmn)

\* createGame(wf): the standard board and the default metadata.
createGame(wf) ==
  [b |-> createBoard, moveEvents |-> <<>>, MoveHistory |-> <<>>, CaptureHistory |-> <<>>,
   cstl |-> <<"K", "Q", "k", "q">>, enP |-> NoSquare, hmc |-> 0, fmn |-> 1, wf |-> wf,
   emitted |-> <<>>]

(***************************************************************************)
(* The game validator.                                                     *)
(***************************************************************************)
\* gameValidator.findKingSquare: the first king of the side in index order.
findKingSquare(b, sd) ==
  LET ks == SelectSeq(getSquares(b, sd), LAMBDA sq : PieceAt(b, sq).Type = pieceKing)
  IN IF Len(ks) = 0 THEN NoSquare ELSE ks[1]

\* isRepetition answering at the second occurrence of a hash.
isRepetitionAtSecond(g) ==
  \E i \in 1 .. Len(g.MoveHistory) :
     Cardinality({j \in 1 .. Len(g.MoveHistory) :
                    g.moveEvents[g.MoveHistory[j]].hashCode =
                    g.moveEvents[g.MoveHistory[i]].hashCode}) >= 2

\* gameValidator.isRepetition: some hash occurs three times in MoveHistory.
isRepetition(g) ==
  \E i \in 1 .. Len(g.MoveHistory) :
     Cardinality({j \in 1 .. Len(g.MoveHistory) :
                    g.moveEvents[g.MoveHistory[j]].hashCode =
                    g.moveEvents[g.MoveHistory[i]].hashCode}) >= 3

\* gameValidator.Check reporting check whenever the king is attacked, with or
\* without a legal move.
gameValidatorCheckAttackOnly(g) ==
  With(boardValidatorCheck(g.b, getCurrentSide(g)), LAMBDA bv :
  With(isSquareAttacked(bv.b, findKingSquare(bv.b, getCurrentSide(g))), LAMBDA isAttacked :
    [g |-> [g EXCEPT !.b = bv.b, !.emitted = g.emitted \o bv.events],
     IsCheck      |-> isAttacked,
     IsCheckmate  |-> isAttacked /\ Len(bv.validMoves) = 0,
     IsStalemate  |-> ~isAttacked /\ Len(bv.validMoves) = 0,
     IsRepetition |-> isRepetition(g),
     ValidMoves   |-> bv.validMoves]))

\* gameValidator.Check: the validation pass.  The board it leaves and the
\* check / checkmate events it emitted are part of the result.
gameValidatorCheck(g) ==
  With(boardValidatorCheck(g.b, getCurrentSide(g)), LAMBDA bv :
  With(isSquareAttacked(bv.b, findKingSquare(bv.b, getCurrentSide(g))), LAMBDA isAttacked :
    [g |-> [g EXCEPT !.b = bv.b, !.emitted = g.emitted \o bv.events],
     IsCheck      |-> isAttacked /\ Len(bv.validMoves) > 0,
     IsCheckmate  |-> isAttacked /\ Len(bv.validMoves) = 0,
     IsStalemate  |-> ~isAttacked /\ Len(bv.validMoves) = 0,
     IsRepetition |-> isRepetition(g),
     ValidMoves   |-> bv.validMoves]))

(***************************************************************************)
(* The AlgebraicGameClient.  A client value c is a record                  *)
(*   g : the Game;  PGN : options.PGN                                      *)
(*   isCheck, isCheckmate, isRepetition, isStalemate, validMoves,          *)
(*   notatedMoves : the cached result of the last validation pass;         *)
(*   notatedMoves is a function from SAN key to [Src, Dest].               *)
(***************************************************************************)
getValidMovesByPieceType(b, pt, validMoves) ==
  SelectSeq(validMoves,
            LAMBDA mv : b.Squares[mv.origin] # NoPiece /\ PieceAt(b, mv.origin).Type = pt)

\* getNotationPrefix that names the source only when the pieces that reach
\* dest stand on more than one file.
getNotationPrefixFileOnly(b, src, dest, moves) ==
  LET reach == {i \in 1 .. Len(moves) : InSeq(dest, moves[i].destinationSquares)}
      fileCount == {FileOf(moves[i].origin) : i \in reach}
  IN Notation(PieceAt(b, src).Type) \o
     (IF Cardinality(fileCount) > 1 THEN <<FileChars[FileOf(src) + 1]>> ELSE <<>>)

\* getNotationPrefix: the piece letter, the source file when the pieces that
\* reach dest stand on more than one file, the source rank when they stand on
\* more ranks than files.
getNotationPrefix(b, src, dest, moves) ==
  LET reach == {i \in 1 .. Len(moves) : InSeq(dest, moves[i].destinationSquares)}
      fileCount == {FileOf(moves[i].origin) : i \in reach}
      rankCount == {RankOf(moves[i].origin) : i \in reach}
  IN Notation(PieceAt(b, src).Type) \o
     (IF Cardinality(fileCount) > 1 THEN <<FileChars[FileOf(src) + 1]>> ELSE <<>>) \o
     (IF Cardinality(rankCount) > Cardinality(fileCount) THEN Itoa(RankOf(src)) ELSE <<>>)

castleKey(pgn, long) ==
  IF pgn THEN (IF long THEN <<"O", "-", "O", "-", "O">> ELSE <<"O", "-", "O">>)
         ELSE (IF long THEN <<"0", "-", "0", "-", "0">> ELSE <<"0", "-", "0">>)

\* The key notate builds for one (src, dest) pair, without a promotion suffix.
notateKey(b, pgn, mvs, src, dest) ==
  LET piece   == PieceAt(b, src)
      taken   == b.Squares[dest] # NoPiece
      suffix0 == (IF taken THEN <<"x">> ELSE <<>>) \o name(dest)
      pawnPfx == IF piece.Type = piecePawn /\ FileOf(src) # FileOf(dest) /\ ~taken
                 THEN <<FileChars[FileOf(src) + 1], "x">>
                 ELSE IF taken /\ piece.Type = piecePawn
                 THEN <<FileChars[FileOf(src) + 1]>>
                 ELSE <<>>
      matches == getValidMovesByPieceType(b, piece.Type, mvs)
      castleG == piece.Type = pieceKing /\ FileOf(src) = fileE /\ FileOf(dest) = fileG
      castleC == piece.Type = pieceKing /\ FileOf(src) = fileE /\ FileOf(dest) = fileC
      prefix  ==
        CASE piece.Type \in {pieceBishop, pieceKnight, pieceQueen, pieceRook} ->
               IF Len(matches) > 1 THEN getNotationPrefix(b, src, dest, matches)
                                   ELSE Notation(piece.Type)
          [] piece.Type = pieceKing ->
               IF castleC THEN castleKey(pgn, TRUE)
               ELSE IF castleG THEN castleKey(pgn, FALSE)
               ELSE Notation(piece.Type)
          [] OTHER -> pawnPfx
      suffix  == IF castleG \/ castleC THEN <<>> ELSE suffix0
  IN prefix \o suffix

\* isPromotion looking at the eighth rank only.
isPromotionEighthRankOnly(b, src, dest) ==
  RankOf(dest) = 8 /\ PieceAt(b, src).Type = piecePawn

\* Whether notate expands the pair into the four promotion keys.
isPromotion(b, src, dest) ==
  (RankOf(dest) = 1 \/ RankOf(dest) = 8) /\ PieceAt(b, src).Type = piecePawn

promotionLetters == <<"R", "N", "B", "Q">>

\* The (key, move) assignments of notate, in the order it makes them.
notateEntries(b, pgn, mvs) ==
  LET ofPair(src, dest) ==
        With(notateKey(b, pgn, mvs, src, dest), LAMBDA key :
          IF ~isPromotion(b, src, dest)
          THEN <<[key |-> key, Src |-> src, Dest |-> dest]>>
          ELSE [k \in 1 .. 4 |->
                  [key |-> Append(key, promotionLetters[k]), Src |-> src, Dest |-> dest]])
      ofMove(vm) ==
        IF b.Squares[vm.origin] = NoPiece THEN <<>>
        ELSE Flatten([j \in 1 .. Len(vm.destinationSquares) |->
                        ofPair(vm.origin, vm.destinationSquares[j])])
  IN Flatten([i \in 1 .. Len(mvs) |-> ofMove(mvs[i])])

\* AlgebraicGameClient.notate: the map; a later assignment to a key replaces
\* an earlier one.
notate(b, pgn, mvs) ==
  With(notateEntries(b, pgn, mvs), LAMBDA es :
    [k \in {es[i].key : i \in 1 .. Len(es)} |->
       With(CHOOSE i \in 1 .. Len(es) :
              es[i].key = k /\ \A j \in (i + 1) .. Len(es) : es[j].key # k,
            LAMBDA last : [Src |-> es[last].Src, Dest |-> es[last].Dest])])

\* sanitizeNotation that leaves the letter O and the digit 0 as written.
sanitizeNotationAsWritten(n, usePGN) ==
  SelectSeq(n, LAMBDA ch : ch \notin {"!", "+", "#", "=", "\\"})

\* sanitizeNotation
sanitizeNotation(n, usePGN) ==
  LET clean == SelectSeq(n, LAMBDA ch : ch \notin {"!", "+", "#", "=", "\\"})
  IN IF usePGN THEN ReplaceAll(clean, "0", <<"O">>) ELSE ReplaceAll(clean, "O", <<"0">>)

\* AlgebraicGameClient.update: the validation pass and the re-rendered table.
update(c) ==
  With(gameValidatorCheck(c.g), LAMBDA result :
    [c EXCEPT !.g = result.g,
              !.isCheck = result.IsCheck,
              !.isCheckmate = result.IsCheckmate,
              !.isRepetition = result.IsRepetition,
              !.isStalemate = result.IsStalemate,
              !.validMoves = result.ValidMoves,
              !.notatedMoves = notate(result.g.b, c.PGN, result.ValidMoves)])

HasPrefix(k, p) == Len(k) >= Len(p) /\ SubSeq(k, 1, Len(p)) = p

\* The promotion letter Move reads off the end of the sanitized input.
promotionChoice(ntn) ==
  IF Len(ntn) > 0 /\ ntn[Len(ntn)] \in {"B", "N", "Q", "R"} THEN <<ntn[Len(ntn)]>> ELSE <<>>

\* The keys the verbose fallback of Move may settle on for the sanitized
\* input ntn: ntn itself when it is a key or too short; otherwise any key
\* whose move has the named source and destination and which starts with the
\* named piece letter (the first such key in map iteration order, which Go
\* leaves unspecified); ntn itself when there is none.
resolveNotation(notatedMoves, ntn) ==
  IF ntn \in DOMAIN notatedMoves \/ Len(ntn) < 4 THEN {ntn}
  ELSE LET lettered == ntn[1] \in {"N", "B", "R", "Q", "K"}
           p    == IF lettered THEN <<ntn[1]>> ELSE <<>>
           ofs  == IF lettered THEN 1 ELSE 0
       IN IF Len(ntn) < ofs + 4 THEN {ntn}
          ELSE LET srcN == SubSeq(ntn, ofs + 1, ofs + 2)
                   dstN == SubSeq(ntn, ofs + 3, ofs + 4)
                   hits == {k \in DOMAIN notatedMoves :
                              /\ name(notatedMoves[k].Src) = srcN
                              /\ name(notatedMoves[k].Dest) = dstN
                              /\ HasPrefix(k, p)}
               IN IF hits = {} THEN {ntn} ELSE hits

promotedKind(letter) ==
  CASE letter = <<"B">> -> pieceBishop
    [] letter = <<"N">> -> pieceKnight
    [] letter = <<"Q">> -> pieceQueen
    [] letter = <<"R">> -> pieceRook

\* AlgebraicGameClient.Move once the input is resolved to `key`: the move,
\* the promotion when a letter was given, the update.  The emitted events
\* are those of this call.
moveResolved(c, key, prmP) ==
  IF key \notin DOMAIN c.notatedMoves THEN [err |-> TRUE, c |-> c, handle |-> 0]
  ELSE With(GameMove(c.g, c.notatedMoves[key].Src, c.notatedMoves[key].Dest, key), LAMBDA res :
         IF res.err THEN [err |-> TRUE, c |-> c, handle |-> 0]
         ELSE IF prmP = <<>>
           THEN [err |-> FALSE, c |-> update([c EXCEPT !.g = res.g]), handle |-> res.handle]
         ELSE With(GamePromote(res.g, c.notatedMoves[key].Dest,
                               newPiece(promotedKind(prmP), Opponent(getCurrentSide(res.g)))),
                   LAMBDA pr :
                IF pr.err THEN [err |-> TRUE, c |-> [c EXCEPT !.g = res.g], handle |-> 0]
                ELSE [err |-> FALSE, c |-> update([c EXCEPT !.g = pr.g]),
                      handle |-> res.handle]))

\* Move with the update run on the error paths as well as after a move.
ClientMoveUpdatingOnError(c, ntn) ==
  IF ntn = <<>> THEN {[err |-> TRUE, c |-> update(c), handle |-> 0]}
  ELSE LET clean == sanitizeNotation(ntn, c.PGN)
           prmP  == promotionChoice(clean)
           updated(r) == IF r.err THEN [r EXCEPT !.c = update(r.c)] ELSE r
       IN {updated(moveResolved(c, key, prmP)) :
             key \in resolveNotation(c.notatedMoves, clean)}

\* AlgebraicGameClient.Move(ntn): the set of possible results (one, unless
\* the verbose fallback has several keys to choose from).
ClientMove(c, ntn) ==
  IF ntn = <<>> THEN {[err |-> TRUE, c |-> c, handle |-> 0]}
  ELSE LET clean == sanitizeNotation(ntn, c.PGN)
           prmP  == promotionChoice(clean)
       IN {moveResolved(c, key, prmP) : key \in resolveNotation(c.notatedMoves, clean)}

\* notationRegex: ^[BKQNR]?[a-h]?[1-8]?[x-]?[a-h][1-8][+#]?$ , by the parts
\* that are present.
matchesNotationRegex(str) ==
  \E p \in {0, 1}, f \in {0, 1}, r \in {0, 1}, x \in {0, 1}, t \in {0, 1} :
     /\ Len(str) = p + f + r + x + 2 + t
     /\ (p = 1) => str[1] \in {"B", "K", "Q", "N", "R"}
     /\ (f = 1) => InSeq(str[p + 1], FileChars)
     /\ (r = 1) => InSeq(str[p + f + 1], SubSeq(Digits, 2, 9))
     /\ (x = 1) => str[p + f + r + 1] \in {"x", "-"}
     /\ InSeq(str[p + f + r + x + 1], FileChars)
     /\ InSeq(str[p + f + r + x + 2], SubSeq(Digits, 2, 9))
     /\ (t = 1) => str[Len(str)] \in {"+", "#"}

\* parseNotation: the destination for a pawn capture (^[a-h]x[a-h][1-8]$),
\* the first character and the destination for other inputs longer than two.
parseNotation(notation) ==
  IF Len(notation) < 2 THEN <<>>
  ELSE LET dest == SubSeq(notation, Len(notation) - 1, Len(notation))
           isCapture == /\ Len(notation) = 4
                        /\ InSeq(notation[1], FileChars) /\ notation[2] = "x"
                        /\ InSeq(notation[3], FileChars)
                        /\ InSeq(notation[4], SubSeq(Digits, 2, 9))
       IN IF Len(notation) > 2 /\ isCapture THEN dest
          ELSE IF Len(notation) > 2 THEN <<notation[1]>> \o dest
          ELSE <<>>

\* AlgebraicGameClient.Move(not, false) of the client with the fuzzy
\* fallback: the direct lookup, and for an input of the notation's shape
\* that is no key one further lookup, Move(parseNotation(not), true).
ClientMoveFuzzy(c, ntn) ==
  LET failed == [err |-> TRUE, c |-> c, handle |-> 0]
      lookup(n) == With(sanitizeNotation(n, c.PGN), LAMBDA clean :
                     moveResolved(c, clean, promotionChoice(clean)))
  IN IF ntn = <<>> THEN failed
     ELSE With(sanitizeNotation(ntn, c.PGN), LAMBDA clean :
            IF clean \in DOMAIN c.notatedMoves THEN lookup(ntn)
            ELSE IF matchesNotationRegex(clean) /\ Len(clean) > 1
            THEN (IF parseNotation(clean) = <<>> THEN failed
                  ELSE lookup(parseNotation(clean)))
            ELSE failed)

\* moveResult.Undo() on handle h of a committed move: the board's undo, the
\* game's handler, and the client's own "undo" subscriber, which updates.
ClientUndo(c, h) ==
  With(BoardUndo(c.g, h), LAMBDA r :
    IF ~r.fired THEN c ELSE update([c EXCEPT !.g = r.g]))

\* AlgebraicGameClient.Status(force)
ClientStatus(c, force) ==
  IF force THEN update(c) ELSE c

newClient(g, pgn, fenText) ==
  [g |-> g, PGN |-> pgn, fen |-> fenText,
   isCheck |-> FALSE, isCheckmate |-> FALSE, isRepetition |-> FALSE, isStalemate |-> FALSE,
   validMoves |-> <<>>, notatedMoves |-> <<>>]

\* CreateAlgebraicGameClient(opts)
CreateAlgebraicGameClient(pgn) ==
  [status |-> "ok", c |-> update(newClient(createGame(TRUE), pgn, <<>>))]

\* CreateAlgebraicGameClientFromFEN(fen, opts): status "ok" with the client,
\* "error", or "panic" (loadBoard indexing out of range).
CreateAlgebraicGameClientFromFEN(fenText, pgn) ==
  IF IsBlank(fenText)
  THEN [status |-> "error", c |-> newClient(createGame(TRUE), pgn, fenText)]
  ELSE With(loadBoard(fenText), LAMBDA loaded :
       With(Split(fenText, " "), LAMBDA parts :
         IF loaded.status # "ok"
         THEN [status |-> loaded.status, c |-> newClient(createGame(TRUE), pgn, fenText)]
         ELSE With(createGame(~(Len(parts) > 1 /\ parts[2] = <<"b">>)), LAMBDA g0 :
                [status |-> "ok",
                 c |-> update(newClient(
                         [g0 EXCEPT
                            !.b    = loaded.b,
                            !.cstl = IF Len(parts) > 2 THEN parts[3] ELSE g0.cstl,
                            !.enP  = IF Len(parts) > 3 THEN getSquareByName(parts[4])
                                                       ELSE g0.enP,
                            !.hmc  = IF Len(parts) > 4 THEN Atoi(parts[5]) ELSE g0.hmc,
                            !.fmn  = IF Len(parts) > 5 THEN Atoi(parts[6]) ELSE g0.fmn],
                         pgn, fenText))])))

(***************************************************************************)
(* The environment.  A scenario is one way of constructing a client and    *)
(* the notations its caller may pass to Move: `fen` is the argument of     *)
(* CreateAlgebraicGameClientFromFEN (std: CreateAlgebraicGameClient        *)
(* instead), PGN the option, `inputs` the notations, and `open` adds every *)
(* key of the current legal-move table to them.                            *)
(***************************************************************************)
Scenarios ==
  <<
    \* the standard start
    \* inputs: 'e4', 'd5', 'exd5', 'e2e4', 'Ke2', '', 'e4!', 'Ke1e2Q'
    [std |-> TRUE, PGN |-> FALSE, open |-> FALSE,
     fen |-> <<
>>,
     inputs |-> {<<"e", "4">>, <<"d", "5">>, <<"e", "x", "d", "5">>, <<"e", "2", "e", "4">>, <<"K", "e", "2">>, <<>>, <<"e", "4", "!">>,
                 <<"K", "e", "1", "e", "2", "Q">>}],
    \* both sides may castle on either wing: 'r3k2r/8/8/8/8/8/8/R3K2R w KQkq - 0 1'
    \* inputs: 'O-O', '0-0-0', 'Ke2', 'Rh2', 'Rxh8', 'O-O-O', '0-0'
    [std |-> FALSE, PGN |-> TRUE, open |-> FALSE,
     fen |-> <<
         "r", "3", "k", "2", "r", "/", "8", "/", "8", "/", "8", "/", "8", "/", "8", "/",
         "8", "/", "R", "3", "K", "2", "R", " ", "w", " ", "K", "Q", "k", "q", " ", "-",
         " ", "0", " ", "1">>,
     inputs |-> {<<"0", "-", "0">>, <<"O", "-", "O">>, <<"0", "-", "0", "-", "0">>, <<"K", "e", "2">>, <<"R", "h", "2">>, <<"R", "x", "h", "8">>, <<"O", "-", "O", "-", "O">>}],
    \* a black rook covers f1; the rights field names only K: '4kr2/8/8/8/8/8/8/R3K2R w K - 0 1'
    \* inputs: '0-0', '0-0-0', 'Ke2', 'Rg8', 'Kd7'
    [std |-> FALSE, PGN |-> FALSE, open |-> FALSE,
     fen |-> <<
         "4", "k", "r", "2", "/", "8", "/", "8", "/", "8", "/", "8", "/", "8", "/", "8",
         "/", "R", "3", "K", "2", "R", " ", "w", " ", "K", " ", "-", " ", "0", " ", "1">>,
     inputs |-> {<<"0", "-", "0">>, <<"0", "-", "0", "-", "0">>, <<"K", "e", "2">>, <<"R", "g", "8">>, <<"K", "d", "7">>}],
    \* en passant: a white pawn on e5, black pawns on d7 and f6: '4k3/3p4/5p2/4P3/8/8/8/4K3 b - - 0 1'
    \* inputs: 'd5', 'f5', 'exd6', 'exf6', 'd6', 'Kd2'
    [std |-> FALSE, PGN |-> FALSE, open |-> FALSE,
     fen |-> <<
         "4", "k", "3", "/", "3", "p", "4", "/", "5", "p", "2", "/", "4", "P", "3", "/",
         "8", "/", "8", "/", "8", "/", "4", "K", "3", " ", "b", " ", "-", " ", "-", " ",
         "0", " ", "1">>,
     inputs |-> {<<"d", "5">>, <<"f", "5">>, <<"e", "x", "d", "6">>, <<"e", "x", "f", "6">>, <<"d", "6">>, <<"K", "d", "2">>}],
    \* an unmoved king on b1 beside a rook on a1: '4k3/8/8/8/8/8/8/RK6 w - - 0 1'
    \* inputs: 'Kc1', 'Kb2', 'Kd7', 'Ra2'
    [std |-> FALSE, PGN |-> FALSE, open |-> FALSE,
     fen |-> <<
         "4", "k", "3", "/", "8", "/", "8", "/", "8", "/", "8", "/", "8", "/", "8", "/",
         "R", "K", "6", " ", "w", " ", "-", " ", "-", " ", "0", " ", "1">>,
     inputs |-> {<<"K", "c", "1">>, <<"K", "b", "2">>, <<"K", "d", "7">>, <<"R", "a", "2">>}],
    \* an unmoved king on f1 beside a rook on h1: '4k3/8/8/8/8/8/8/5K1R w - - 0 1'
    \* inputs: 'Kg1', 'Ke2', 'Kh2', 'Kd7', 'Rh2'
    [std |-> FALSE, PGN |-> FALSE, open |-> FALSE,
     fen |-> <<
         "4", "k", "3", "/", "8", "/", "8", "/", "8", "/", "8", "/", "8", "/", "8", "/",
         "5", "K", "1", "R", " ", "w", " ", "-", " ", "-", " ", "0", " ", "1">>,
     inputs |-> {<<"K", "g", "1">>, <<"K", "e", "2">>, <<"K", "h", "2">>, <<"K", "d", "7">>, <<"R", "h", "2">>}],
    \* three queens that reach b2: '4k3/8/8/8/8/Q7/8/Q1Q1K3 w - - 0 1'
    \* inputs: 'Qab2', 'Qcb2', 'Q1b2', 'Qa1b2', 'Kd7'
    [std |-> FALSE, PGN |-> FALSE, open |-> FALSE,
     fen |-> <<
         "4", "k", "3", "/", "8", "/", "8", "/", "8", "/", "8", "/", "Q", "7", "/", "8",
         "/", "Q", "1", "Q", "1", "K", "3", " ", "w", " ", "-", " ", "-", " ", "0", " ",
         "1">>,
     inputs |-> {<<"Q", "a", "b", "2">>, <<"Q", "c", "b", "2">>, <<"Q", "1", "b", "2">>, <<"Q", "a", "1", "b", "2">>, <<"K", "d", "7">>}],
    \* a pawn about to promote: '4k3/P7/8/8/8/8/8/4K3 w - - 0 1'
    \* inputs: 'a8Q', 'a8=R+', 'a7a8Q', 'a8', 'Kd7', 'Ke7', 'Ke2', 'a7a8'
    [std |-> FALSE, PGN |-> FALSE, open |-> FALSE,
     fen |-> <<
         "4", "k", "3", "/", "P", "7", "/", "8", "/", "8", "/", "8", "/", "8", "/", "8",
         "/", "4", "K", "3", " ", "w", " ", "-", " ", "-", " ", "0", " ", "1">>,
     inputs |-> {<<"a", "7", "a", "8">>, <<"a", "8", "Q">>, <<"a", "8", "=", "R", "+">>, <<"a", "7", "a", "8", "Q">>, <<"a", "8">>, <<"K", "d", "7">>, <<"K", "e", "7">>, <<"K", "e", "2">>}],
    \* king and pawn against king, every key of the table offered: '4k3/8/8/8/8/8/4P3/4K3 w - - 0 1'
    \* inputs: 'zz'
    [std |-> FALSE, PGN |-> FALSE, open |-> TRUE,
     fen |-> <<
         "4", "k", "3", "/", "8", "/", "8", "/", "8", "/", "8", "/", "8", "/", "4", "P",
         "3", "/", "4", "K", "3", " ", "w", " ", "-", " ", "-", " ", "0", " ", "1">>,
     inputs |-> {<<"z", "z">>}],
    \* five fields: '4k3/8/8/8/8/8/8/4K3 w - - 0'
    \* inputs: 'Ke2', 'Kd7'
    [std |-> FALSE, PGN |-> FALSE, open |-> FALSE,
     fen |-> <<
         "4", "k", "3", "/", "8", "/", "8", "/", "8", "/", "8", "/", "8", "/", "8", "/",
         "4", "K", "3", " ", "w", " ", "-", " ", "-", " ", "0">>,
     inputs |-> {<<"K", "e", "2">>, <<"K", "d", "7">>}],
    \* digit runs 4 and 4 for an empty rank, clocks 007 and 01, target e9: '4k3/8/8/8/8/8/44/4K3 b - e9 007 01'
    \* inputs: 'Ke7', 'Ke2'
    [std |-> FALSE, PGN |-> FALSE, open |-> FALSE,
     fen |-> <<
         "4", "k", "3", "/", "8", "/", "8", "/", "8", "/", "8", "/", "8", "/", "4", "4",
         "/", "4", "K", "3", " ", "b", " ", "-", " ", "e", "9", " ", "0", "0", "7", " ",
         "0", "1">>,
     inputs |-> {<<"K", "e", "7">>, <<"K", "e", "2">>}],
    \* placement only: '4k3/8/8/8/8/8/8/4K3'
    \* inputs: 'Ke2'
    [std |-> FALSE, PGN |-> FALSE, open |-> FALSE,
     fen |-> <<
         "4", "k", "3", "/", "8", "/", "8", "/", "8", "/", "8", "/", "8", "/", "8", "/",
         "4", "K", "3">>,
     inputs |-> {<<"K", "e", "2">>}],
    \* blank: '  '
    \* inputs: 
    [std |-> FALSE, PGN |-> FALSE, open |-> FALSE,
     fen |-> <<
         " ", " ">>,
     inputs |-> {}],
    \* seven ranks: '4k3/8/8/8/8/8/4K3 w - - 0 1'
    \* inputs: 
    [std |-> FALSE, PGN |-> FALSE, open |-> FALSE,
     fen |-> <<
         "4", "k", "3", "/", "8", "/", "8", "/", "8", "/", "8", "/", "8", "/", "4", "K",
         "3", " ", "w", " ", "-", " ", "-", " ", "0", " ", "1">>,
     inputs |-> {}],
    \* a digit run past the h-file: '4k3/8/8/8/8/8/8/4K4 w - - 0 1'
    \* inputs: 
    [std |-> FALSE, PGN |-> FALSE, open |-> FALSE,
     fen |-> <<
         "4", "k", "3", "/", "8", "/", "8", "/", "8", "/", "8", "/", "8", "/", "8", "/",
         "4", "K", "4", " ", "w", " ", "-", " ", "-", " ", "0", " ", "1">>,
     inputs |-> {}],
    \* two pawns that can capture each other: '4k3/8/8/3p4/4P3/8/8/4K3 w - - 0 1'
    \* inputs: 'Ke2', 'dxe4', 'exd5', 'Kd7'
    [std |-> FALSE, PGN |-> FALSE, open |-> FALSE,
     fen |-> <<
         "4", "k", "3", "/", "8", "/", "8", "/", "3", "p", "4", "/", "4", "P", "3", "/",
         "8", "/", "8", "/", "4", "K", "3", " ", "w", " ", "-", " ", "-", " ", "0", " ",
         "1">>,
     inputs |-> {<<"K", "e", "2">>, <<"d", "x", "e", "4">>, <<"e", "x", "d", "5">>, <<"K", "d", "7">>}],
    \* black rooks on the white rooks' home squares: '4k3/8/8/8/8/8/8/r3K2r w - - 0 1'
    \* inputs: '0-0', '0-0-0', 'Ke2', 'Kd7'
    [std |-> FALSE, PGN |-> FALSE, open |-> FALSE,
     fen |-> <<
         "4", "k", "3", "/", "8", "/", "8", "/", "8", "/", "8", "/", "8", "/", "8", "/",
         "r", "3", "K", "2", "r", " ", "w", " ", "-", " ", "-", " ", "0", " ", "1">>,
     inputs |-> {<<"0", "-", "0">>, <<"0", "-", "0", "-", "0">>, <<"K", "e", "2">>, <<"K", "d", "7">>}],
    \* an en-passant target behind the black pawn beside White's: '4k3/8/8/3pP3/8/8/8/4K3 w - d6 0 1'
    \* inputs: 'exd6', 'Ke2', 'Kd7'
    [std |-> FALSE, PGN |-> FALSE, open |-> FALSE,
     fen |-> <<
         "4", "k", "3", "/", "8", "/", "8", "/", "3", "p", "P", "3", "/", "8", "/", "8",
         "/", "8", "/", "4", "K", "3", " ", "w", " ", "-", " ", "d", "6", " ", "0", " ",
         "1">>,
     inputs |-> {<<"e", "x", "d", "6">>, <<"K", "e", "2">>, <<"K", "d", "7">>}],
    \* the two kings alone, stepping back and forth on the e-file: '4k3/8/8/8/8/8/8/4K3 w - - 0 1'
    \* inputs: 'Ke2', 'Ke1', 'Ke7', 'Ke8'
    [std |-> FALSE, PGN |-> FALSE, open |-> FALSE,
     fen |-> <<
         "4", "k", "3", "/", "8", "/", "8", "/", "8", "/", "8", "/", "8", "/", "8", "/",
         "4", "K", "3", " ", "w", " ", "-", " ", "-", " ", "0", " ", "1">>,
     inputs |-> {<<"K", "e", "2">>, <<"K", "e", "1">>, <<"K", "e", "7">>, <<"K", "e", "8">>}],
    \* White mates with the queen or stalemates with the king: '7k/5Q2/6K1/8/8/8/8/8 w - - 0 1'
    \* inputs: 'Qg7', 'Qf8', 'Kh6', 'Qe7', 'Kg8'
    [std |-> FALSE, PGN |-> FALSE, open |-> FALSE,
     fen |-> <<
         "7", "k", "/", "5", "Q", "2", "/", "6", "K", "1", "/", "8", "/", "8", "/", "8",
         "/", "8", "/", "8", " ", "w", " ", "-", " ", "-", " ", "0", " ", "1">>,
     inputs |-> {<<"Q", "g", "7">>, <<"Q", "f", "8">>, <<"K", "h", "6">>, <<"Q", "e", "7">>, <<"K", "g", "8">>}],
    \* a black pawn that promotes by a push or by either capture: '4k3/8/8/8/8/8/1p6/N1B1K3 b - - 0 1'
    \* inputs: 'bxa1Q', 'b1N', 'bxc1R', 'bxc1', 'b1', 'Kd2', 'Kd7'
    [std |-> FALSE, PGN |-> FALSE, open |-> FALSE,
     fen |-> <<
         "4", "k", "3", "/", "8", "/", "8", "/", "8", "/", "8", "/", "8", "/", "1", "p",
         "6", "/", "N", "1", "B", "1", "K", "3", " ", "b", " ", "-", " ", "-", " ", "0",
         " ", "1">>,
     inputs |-> {<<"b", "x", "a", "1", "Q">>, <<"b", "1", "N">>, <<"b", "x", "c", "1", "R">>, <<"b", "x", "c", "1">>, <<"b", "1">>, <<"K", "d", "2">>, <<"K", "d", "7">>}],
    \* three rooks of which two or three reach a4, a5 and h3: '4k3/8/R7/7R/8/R7/8/4K3 w - - 0 1'
    \* inputs: 'Rh3', 'Ra4', 'Ra5', 'Rah3', 'R3a4', 'Rb3', 'Kd7'
    [std |-> FALSE, PGN |-> FALSE, open |-> FALSE,
     fen |-> <<
         "4", "k", "3", "/", "8", "/", "R", "7", "/", "7", "R", "/", "8", "/", "R", "7",
         "/", "8", "/", "4", "K", "3", " ", "w", " ", "-", " ", "-", " ", "0", " ", "1">>,
     inputs |-> {<<"R", "h", "3">>, <<"R", "a", "4">>, <<"R", "a", "5">>, <<"R", "a", "h", "3">>, <<"R", "3", "a", "4">>, <<"R", "b", "3">>, <<"K", "d", "7">>}],
    \* an unknown piece character: '4k3/8/8/8/8/8/8/4X3 w - - 0 1'
    \* inputs: 
    [std |-> FALSE, PGN |-> FALSE, open |-> FALSE,
     fen |-> <<
         "4", "k", "3", "/", "8", "/", "8", "/", "8", "/", "8", "/", "8", "/", "8", "/",
         "4", "X", "3", " ", "w", " ", "-", " ", "-", " ", "0", " ", "1">>,
     inputs |-> {}],
    \* a row of seven squares: '4k3/8/8/8/8/8/8/4K2 w - - 0 1'
    \* inputs: 
    [std |-> FALSE, PGN |-> FALSE, open |-> FALSE,
     fen |-> <<
         "4", "k", "3", "/", "8", "/", "8", "/", "8", "/", "8", "/", "8", "/", "8", "/",
         "4", "K", "2", " ", "w", " ", "-", " ", "-", " ", "0", " ", "1">>,
     inputs |-> {}],
    \* a piece followed by 8: '4k3/8/8/8/K8/8/8/8 w - - 0 1'
    \* inputs: 
    [std |-> FALSE, PGN |-> FALSE, open |-> FALSE,
     fen |-> <<
         "4", "k", "3", "/", "8", "/", "8", "/", "8", "/", "K", "8", "/", "8", "/", "8",
         "/", "8", " ", "w", " ", "-", " ", "-", " ", "0", " ", "1">>,
     inputs |-> {}],
    \* numeric mode, Black to move, both sides may castle on either wing: 'r3k2r/8/8/8/8/8/8/R3K2R b KQkq - 0 1'
    \* inputs: 'O-O', '0-0', 'O-O-O', '0-0-0', 'Ra7', 'Ra2', 'Ra6'
    [std |-> FALSE, PGN |-> FALSE, open |-> FALSE,
     fen |-> <<
         "r", "3", "k", "2", "r", "/", "8", "/", "8", "/", "8", "/", "8", "/", "8", "/",
         "8", "/", "R", "3", "K", "2", "R", " ", "b", " ", "K", "Q", "k", "q", " ", "-",
         " ", "0", " ", "1">>,
     inputs |-> {<<"O", "-", "O">>, <<"0", "-", "0">>, <<"O", "-", "O", "-", "O">>, <<"0", "-", "0", "-", "0">>, <<"R", "a", "7">>, <<"R", "a", "2">>,
                 <<"R", "a", "6">>}],
    \* pawns on their starting rank, free, with the far square taken, and blocked: '4k3/8/8/8/1n6/2nnp3/1PPP3P/6K1 w - - 0 1'
    \* inputs: 'b3', 'h4', 'cxd3'
    [std |-> FALSE, PGN |-> FALSE, open |-> FALSE,
     fen |-> <<
         "4", "k", "3", "/", "8", "/", "8", "/", "8", "/", "1", "n", "6", "/", "2", "n",
         "n", "p", "3", "/", "1", "P", "P", "P", "3", "P", "/", "6", "K", "1", " ", "w",
         " ", "-", " ", "-", " ", "0", " ", "1">>,
     inputs |-> {<<"b", "3">>, <<"h", "4">>, <<"c", "x", "d", "3">>}],
    \* full-move number 0, Black to move: '4k3/8/8/8/8/8/8/4K3 b - - 0 0'
    \* inputs: 'Kd7', 'Ke2', 'Ke8'
    [std |-> FALSE, PGN |-> FALSE, open |-> FALSE,
     fen |-> <<
         "4", "k", "3", "/", "8", "/", "8", "/", "8", "/", "8", "/", "8", "/", "8", "/",
         "4", "K", "3", " ", "b", " ", "-", " ", "-", " ", "0", " ", "0">>,
     inputs |-> {<<"K", "d", "7">>, <<"K", "e", "2">>, <<"K", "e", "8">>}]
  >>

\* The number of calls of a run that change the game: the moves it commits
\* and the undos that take a move back.
MaxCalls == 3

VARIABLES
  scn,      \* the scenario (index into Scenarios) this run was constructed from
  status,   \* what the constructor returned: "ok", "error" or "panic"
  client,   \* the AlgebraicGameClient (with its Game and Board)
  emitted,  \* the events the last operation delivered to the client's subscribers
  lastOp,   \* the last call and what it returned
  pre,      \* the client as it was when the last Move was called
  hub       \* the goroutines of the event hubs while a call is in progress

vars == <<scn, status, client, emitted, lastOp, pre, hub>>

(***************************************************************************)
(* The event hubs.  Board, Game and client each own an eventHub; every     *)
(* subscriber is a goroutine that receives an event on its channel, runs   *)
(* its handler and sends an acknowledgement; emit hands the event to each  *)
(* subscriber in turn and waits for its acknowledgement.  The goroutine of *)
(* a caller or of a handler executes a list of items:                      *)
(*   send s    : hand an event to subscriber s and wait for its ack;       *)
(*   boardMove : Board.Move, which emits move unless the move is refused;  *)
(*   boardUndo : the undo closure, which emits undo;                       *)
(*   validate  : the validation pass, which emits check for an attacked    *)
(*               king.                                                     *)
(* hub is a record: todo and wait and run per goroutine (the items left,   *)
(* the subscriber whose ack is awaited, whether it is inside a call or a   *)
(* handler), inCheck (the king of the side to move is attacked), onMove    *)
(* and onCheck (what the handlers the user registered with On call), and   *)
(* calls (the public operations called so far).                            *)
(***************************************************************************)
Caller == "caller"

\* One goroutine per subscriber: the game's handlers on the board's hub, the
\* client's on the game's hub, the client's own undo handler and the user's
\* handlers on the client's hub (the user's undo handler, registered after the
\* client's own, calls nothing).
Subscribers ==
  {"board.move", "board.undo", "game.move", "game.undo", "game.check",
   "client.undo", "user.move", "user.check", "user.undo"}

Goroutines == {Caller} \cup Subscribers

\* What a handler registered with On may call.
HandlerCalls == {"none", "Status", "Move"}

Item(do, to) == [do |-> do, to |-> to]

\* eventHub.listeners[e] of the hub h, in order of registration.
Listeners(h, e) ==
  CASE h = "board"  /\ e = "move"  -> <<"board.move">>
    [] h = "board"  /\ e = "undo"  -> <<"board.undo">>
    [] h = "game"   /\ e = "move"  -> <<"game.move">>
    [] h = "game"   /\ e = "undo"  -> <<"game.undo">>
    [] h = "game"   /\ e = "check" -> <<"game.check">>
    [] h = "client" /\ e = "move"  -> <<"user.move">>
    [] h = "client" /\ e = "undo"  -> <<"client.undo", "user.undo">>
    [] h = "client" /\ e = "check" -> <<"user.check">>
    [] OTHER -> <<>>

\* eventHub.emit(e): one send, and the wait for its ack, per listener.
emit(h, e) ==
  <<>> \o [i \in 1 .. Len(Listeners(h, e)) |-> Item("send", Listeners(h, e)[i])]

\* The items of a public operation of the client: Move, moveResult.Undo,
\* Status(true); FEN and Status() emit nothing.
Code(op) ==
  CASE op = "Move"   -> <<Item("boardMove", "-"), Item("validate", "-")>>
    [] op = "Undo"   -> <<Item("boardUndo", "-")>>
    [] op = "Status" -> <<Item("validate", "-")>>
    [] OTHER         -> <<>>

\* The handler the subscriber s runs for an event.
Handler(h, s) ==
  CASE s = "board.move"  -> emit("game", "move")
    [] s = "board.undo"  -> emit("game", "undo")
    [] s = "game.move"   -> emit("client", "move")
    [] s = "game.undo"   -> emit("client", "undo")
    [] s = "game.check"  -> emit("client", "check")
    [] s = "client.undo" -> Code("Status")
    [] s = "user.move"   -> Code(h.onMove)
    [] s = "user.check"  -> Code(h.onCheck)
    [] s = "user.undo"   -> <<>>

\* No call in progress, every subscriber waiting for an event.
HubIdle ==
  [todo |-> [g \in Goroutines |-> <<>>], wait |-> [g \in Goroutines |-> "none"],
   run |-> [g \in Goroutines |-> FALSE], inCheck |-> FALSE,
   onMove |-> "none", onCheck |-> "none", calls |-> 0]

NoOp == [op |-> "Create", ntn |-> <<>>, err |-> FALSE, handle |-> 0, force |-> FALSE,
         immediate |-> FALSE]

Construct(s) ==
  IF Scenarios[s].std THEN CreateAlgebraicGameClient(Scenarios[s].PGN)
  ELSE CreateAlgebraicGameClientFromFEN(Scenarios[s].fen, Scenarios[s].PGN)

\* The events are delivered during the call; the stored client carries none.
settled(c) == [c EXCEPT !.g.emitted = <<>>]

\* A client constructed from one of the scenarios ss.
InitGame(ss) ==
  \E s \in ss :
    \E made \in {Construct(s)} :
       /\ scn = s
       /\ status = made.status
       /\ client = settled(made.c)
       /\ emitted = <<>>
       /\ lastOp = [NoOp EXCEPT !.err = made.status # "ok"]
       /\ pre = settled(made.c)

Init == InitGame(1 .. Len(Scenarios)) /\ hub = HubIdle

Inputs ==
  Scenarios[scn].inputs \cup
  (IF Scenarios[scn].open THEN DOMAIN client.notatedMoves ELSE {})

\* The calls so far that changed the game.
Calls ==
  Len(client.g.moveEvents) +
  Cardinality({h \in 1 .. Len(client.g.moveEvents) : client.g.moveEvents[h].undone})

\* Whether Move(ntn) fails in the current state.
Fails(ntn) ==
  \/ ntn = <<>>
  \/ \A k \in resolveNotation(client.notatedMoves, sanitizeNotation(ntn, client.PGN)) :
        k \notin DOMAIN client.notatedMoves

\* AlgebraicGameClient.Move(ntn), in a run of at most `limit` calls that
\* change the game.
MoveWithin(limit) ==
  /\ status = "ok"
  /\ \E ntn \in Inputs :
       /\ Calls < limit \/ Fails(ntn)
       /\ \E r \in ClientMove(client, ntn) :
            /\ client' = settled(r.c)
            /\ emitted' = r.c.g.emitted
            /\ lastOp' = [NoOp EXCEPT !.op = "Move", !.ntn = ntn, !.err = r.err,
                                      !.handle = r.handle]
            /\ pre' = client
  /\ UNCHANGED <<scn, status, hub>>

Move == MoveWithin(MaxCalls)

\* moveResult.Undo() on the handle h.
UndoHandle(h) ==
  \E c1 \in {ClientUndo(client, h)} :
     /\ client' = settled(c1)
     /\ emitted' = c1.g.emitted
     /\ lastOp' = [NoOp EXCEPT !.op = "Undo", !.handle = h,
                     !.immediate = (lastOp.op = "Move" /\ ~lastOp.err /\ lastOp.handle = h)]
     /\ UNCHANGED <<scn, status, pre, hub>>

\* The caller undoes the most recent move still in force, or calls Undo()
\* once more on the handle it has just undone.
UndoWithin(limit) ==
  /\ status = "ok"
  /\ \E h \in 1 .. Len(client.g.moveEvents) :
       /\ \/ /\ client.g.moveEvents[h].undone
             /\ lastOp.op = "Undo" /\ lastOp.handle = h
          \/ /\ ~client.g.moveEvents[h].undone
             /\ Calls < limit
             /\ Len(client.g.MoveHistory) > 0
             /\ client.g.MoveHistory[Len(client.g.MoveHistory)] = h
       /\ UndoHandle(h)

Undo == UndoWithin(MaxCalls)

\* The caller calls Undo() on any handle it was ever given.
UndoAny ==
  /\ status = "ok"
  /\ \E h \in 1 .. Len(client.g.moveEvents) :
       /\ client.g.moveEvents[h].undone \/ Calls < MaxCalls
       /\ UndoHandle(h)

\* AlgebraicGameClient.Status(force).  A call that neither changes the
\* client nor delivers an event leaves no trace.
Status ==
  /\ status = "ok"
  /\ \E force \in BOOLEAN :
       \E c1 \in {ClientStatus(client, force)} :
          /\ client' = settled(c1)
          /\ IF settled(c1) = client /\ c1.g.emitted = <<>>
             THEN UNCHANGED <<emitted, lastOp>>
             ELSE /\ emitted' = c1.g.emitted
                  /\ lastOp' = [NoOp EXCEPT !.op = "Status", !.force = force]
  /\ UNCHANGED <<scn, status, pre, hub>>

Next == Move \/ Undo \/ Status

Spec == Init /\ [][Next]_vars

\* Move(ntn, false) of the client with the fuzzy fallback.
MoveFuzzy ==
  /\ status = "ok"
  /\ \E ntn \in Inputs :
       \E r \in {ClientMoveFuzzy(client, ntn)} :
          /\ Calls < MaxCalls \/ r.err
          /\ client' = settled(r.c)
          /\ emitted' = r.c.g.emitted
          /\ lastOp' = [NoOp EXCEPT !.op = "Move", !.ntn = ntn, !.err = r.err,
                                    !.handle = r.handle]
          /\ pre' = client
  /\ UNCHANGED <<scn, status, hub>>

NextFuzzy == MoveFuzzy \/ Undo \/ Status

SpecFuzzy == Init /\ [][NextFuzzy]_vars

NextAnyHandle == Move \/ UndoAny \/ Status

SpecAnyHandle == Init /\ [][NextAnyHandle]_vars

(***************************************************************************)
(* Long games: two kings that can only step back and forth, played for     *)
(* long enough to repeat a position three times.                           *)
(***************************************************************************)
\* The number of calls of a long game that change the game.
MaxRepetitionCalls == 10

\* '4k3/8/8/8/8/8/8/4K3 w - - 0 1'
LongGames ==
  {s \in 1 .. Len(Scenarios) :
     Scenarios[s].fen =
       <<"4", "k", "3", "/", "8", "/", "8", "/", "8", "/", "8", "/", "8", "/", "8", "/",
         "4", "K", "3", " ", "w", " ", "-", " ", "-", " ", "0", " ", "1">>}

InitRepetition == InitGame(LongGames) /\ hub = HubIdle

RepetitionMove == MoveWithin(MaxRepetitionCalls)

RepetitionUndo == UndoWithin(MaxRepetitionCalls)

NextRepetition == RepetitionMove \/ RepetitionUndo \/ Status

SpecRepetition == InitRepetition /\ [][NextRepetition]_vars

(***************************************************************************)
(* The goroutines of the event hubs during the calls of a client.          *)
(***************************************************************************)
\* The public operations a run calls.
MaxHubCalls == 2

\* A client at the standard start, no call in progress, and the handlers the
\* user registered for move and for check.
InitHub ==
  /\ InitGame({1})
  /\ hub \in {[HubIdle EXCEPT !.onMove = m, !.onCheck = c, !.inCheck = k] :
                m \in HandlerCalls, c \in HandlerCalls, k \in BOOLEAN}

\* The caller calls Move, Undo, Status(true) or FEN.
HubCall ==
  /\ ~hub.run[Caller] /\ hub.calls < MaxHubCalls
  /\ \E op \in {"Move", "Undo", "Status", "FEN"} :
       hub' = [hub EXCEPT !.run[Caller] = TRUE, !.todo[Caller] = Code(op),
                          !.calls = @ + 1]
  /\ UNCHANGED <<scn, status, client, emitted, lastOp, pre>>

\* The goroutine g is at an item that needs no other goroutine.
HubExec(g) ==
  /\ hub.run[g] /\ hub.wait[g] = "none" /\ hub.todo[g] # <<>>
  /\ LET it   == Head(hub.todo[g])
         rest == Tail(hub.todo[g])
     IN \/ /\ it.do = "boardMove"
           /\ \E committed \in BOOLEAN, k \in BOOLEAN :
                hub' = IF committed
                       THEN [hub EXCEPT !.todo[g] = emit("board", "move") \o rest,
                                        !.inCheck = k]
                       ELSE [hub EXCEPT !.todo[g] = Tail(rest)]
        \/ /\ it.do = "boardUndo"
           /\ \E k \in BOOLEAN :
                hub' = [hub EXCEPT !.todo[g] = emit("board", "undo") \o rest,
                                   !.inCheck = k]
        \/ /\ it.do = "validate"
           /\ hub' = [hub EXCEPT !.todo[g] =
                        (IF hub.inCheck THEN emit("game", "check") ELSE <<>>) \o rest]
  /\ UNCHANGED <<scn, status, client, emitted, lastOp, pre>>

\* sub.ch <- dta : the subscriber is at its receive, takes the event and
\* starts its handler; the sender goes on to wait for the ack.
HubSend(g) ==
  /\ hub.run[g] /\ hub.wait[g] = "none" /\ hub.todo[g] # <<>>
  /\ Head(hub.todo[g]).do = "send"
  /\ LET s == Head(hub.todo[g]).to
     IN /\ ~hub.run[s]
        /\ hub' = [hub EXCEPT !.todo[g] = Tail(@), !.wait[g] = s,
                              !.run[s] = TRUE, !.todo[s] = Handler(hub, s)]
  /\ UNCHANGED <<scn, status, client, emitted, lastOp, pre>>

\* sub.ack <- struct{}{} : the handler of s has returned and the sender
\* takes the ack.
HubAck(s) ==
  /\ s \in Subscribers
  /\ hub.run[s] /\ hub.wait[s] = "none" /\ hub.todo[s] = <<>>
  /\ \E g \in Goroutines :
       /\ hub.wait[g] = s
       /\ hub' = [hub EXCEPT !.run[s] = FALSE, !.wait[g] = "none"]
  /\ UNCHANGED <<scn, status, client, emitted, lastOp, pre>>

\* The operation returns to the caller.
HubReturn ==
  /\ hub.run[Caller] /\ hub.wait[Caller] = "none" /\ hub.todo[Caller] = <<>>
  /\ hub' = [hub EXCEPT !.run[Caller] = FALSE]
  /\ UNCHANGED <<scn, status, client, emitted, lastOp, pre>>

NextHub ==
  \/ HubCall
  \/ \E g \in Goroutines : HubExec(g)
  \/ \E g \in Goroutines : HubSend(g)
  \/ \E s \in Subscribers : HubAck(s)
  \/ HubReturn

SpecHub == InitHub /\ [][NextHub]_vars
(***************************************************************************)
(* Properties.  The reference notions below (what a square being attacked  *)
(* means, what executing a chess move does) are stated from the rules of   *)
(* chess, independently of the validator's simulate-and-undo.              *)
(***************************************************************************)
Abs(x) == IF x < 0 THEN 0 - x ELSE x

Board == client.g.b

SideToMove == getCurrentSide(client.g)

\* The (origin, destination) pairs of the legal-move table.
TablePairs ==
  UNION {{<<client.validMoves[i].origin, client.validMoves[i].destinationSquares[j]>> :
            j \in 1 .. Len(client.validMoves[i].destinationSquares)} :
         i \in 1 .. Len(client.validMoves)}

\* The squares strictly between two squares of one rank, file or diagonal are empty.
ClearLine(sqs, from, to) ==
  LET df == FileOf(to) - FileOf(from)
      dr == RankOf(to) - RankOf(from)
      n  == IF Abs(df) > Abs(dr) THEN Abs(df) ELSE Abs(dr)
  IN \A k \in 1 .. (n - 1) :
        sqs[GetSquare(FileOf(from) + k * (df \div n), RankOf(from) + k * (dr \div n))] = NoPiece

\* The piece standing on `from` attacks the square `to`.
Attacks(sqs, pcs, from, to) ==
  LET p  == pcs[sqs[from]]
      df == FileOf(to) - FileOf(from)
      dr == RankOf(to) - RankOf(from)
      straight == (df = 0 \/ dr = 0) /\ ClearLine(sqs, from, to)
      diagonal == Abs(df) = Abs(dr) /\ ClearLine(sqs, from, to)
  IN /\ from # to
     /\ CASE p.Type = pieceKnight -> {Abs(df), Abs(dr)} = {1, 2}
          [] p.Type = pieceKing   -> Abs(df) <= 1 /\ Abs(dr) <= 1
          [] p.Type = piecePawn   -> Abs(df) = 1 /\ dr = (IF p.Side = sideWhite THEN 1 ELSE 0 - 1)
          [] p.Type = pieceRook   -> straight
          [] p.Type = pieceBishop -> diagonal
          [] OTHER                -> straight \/ diagonal

\* Some piece of side `by` attacks the square sq.
AttackedBy(sqs, pcs, sq, by) ==
  \E from \in SquareIdx :
     sqs[from] # NoPiece /\ pcs[sqs[from]].Side = by /\ Attacks(sqs, pcs, from, sq)

\* A king of side sd stands on e-file of its back rank and goes two files.
IsCastlePair(sqs, pcs, o, d) ==
  /\ sqs[o] # NoPiece /\ pcs[sqs[o]].Type = pieceKing
  /\ FileOf(o) = fileE /\ RankOf(d) = RankOf(o)
  /\ RankOf(o) = (IF pcs[sqs[o]].Side = sideBlack THEN 8 ELSE 1)
  /\ (FileOf(d) = fileG \/ FileOf(d) = fileC)

\* The conditions under which castling from o to d is permitted.
CastlePermitted(sqs, pcs, o, d) ==
  LET r     == RankOf(o)
      king  == pcs[sqs[o]]
      short == FileOf(d) = fileG
      rookSq == GetSquare(IF short THEN fileH ELSE fileA, r)
      between == IF short THEN {fileF, fileG} ELSE {fileB, fileC, fileD}
      through == GetSquare(IF short THEN fileF ELSE fileD, r)
      enemy == Opponent(king.Side)
  IN /\ king.MoveCount = 0
     /\ sqs[rookSq] # NoPiece
     /\ pcs[sqs[rookSq]].Type = pieceRook
     /\ pcs[sqs[rookSq]].Side = king.Side
     /\ pcs[sqs[rookSq]].MoveCount = 0
     /\ \A f \in between : sqs[GetSquare(f, r)] = NoPiece
     /\ ~AttackedBy(sqs, pcs, o, enemy)
     /\ ~AttackedBy(sqs, pcs, through, enemy)
     /\ ~AttackedBy(sqs, pcs, d, enemy)

\* The squares after the chess move from o to d: the piece relocated, a pawn
\* taken en passant removed, the rook relocated when the move castles.
Executed(sqs, pcs, o, d) ==
  LET pid   == sqs[o]
      moved == [sqs EXCEPT ![d] = pid, ![o] = NoPiece]
      ep    == pcs[pid].Type = piecePawn /\ sqs[d] = NoPiece /\ FileOf(d) # FileOf(o)
      r     == RankOf(o)
  IN IF ep THEN [moved EXCEPT ![GetSquare(FileOf(d), r)] = NoPiece]
     ELSE IF IsCastlePair(sqs, pcs, o, d)
     THEN IF FileOf(d) = fileG
          THEN [moved EXCEPT ![GetSquare(fileF, r)] = sqs[GetSquare(fileH, r)],
                             ![GetSquare(fileH, r)] = NoPiece]
          ELSE [moved EXCEPT ![GetSquare(fileD, r)] = sqs[GetSquare(fileA, r)],
                             ![GetSquare(fileA, r)] = NoPiece]
     ELSE moved

\* In the squares sqs, a king of side sd is attacked.
KingAttacked(sqs, pcs, sd) ==
  \E k \in SquareIdx :
     /\ sqs[k] # NoPiece /\ pcs[sqs[k]].Type = pieceKing /\ pcs[sqs[k]].Side = sd
     /\ AttackedBy(sqs, pcs, k, Opponent(sd))

\* The pseudo-legal pairs of the side to move, and its permitted castling moves.
PseudoLegalPairs ==
  UNION {{<<o, Check(Board, o)[j]>> : j \in 1 .. Len(Check(Board, o))} :
         o \in {sq \in SquareIdx : Board.Squares[sq] # NoPiece /\
                                   PieceAt(Board, sq).Side = SideToMove}}

CastlePairs ==
  {p \in {GetSquare(fileE, IF SideToMove = sideBlack THEN 8 ELSE 1)} \X SquareIdx :
     /\ IsCastlePair(Board.Squares, Board.Pieces, p[1], p[2])
     /\ PieceAt(Board, p[1]).Side = SideToMove
     /\ CastlePermitted(Board.Squares, Board.Pieces, p[1], p[2])}

LegalPairs ==
  {p \in PseudoLegalPairs \cup CastlePairs :
     ~KingAttacked(Executed(Board.Squares, Board.Pieces, p[1], p[2]), Board.Pieces, SideToMove)}

\* The placement, LastMovedPiece and every MoveCount of b1 are those of b0.
SameBoard(b0, b1) ==
  /\ b1.Squares = b0.Squares
  /\ b1.LastMovedPiece = b0.LastMovedPiece
  /\ \A p \in 1 .. Len(b0.Pieces) : b1.Pieces[p].MoveCount = b0.Pieces[p].MoveCount

\* C1: after Move(m) for a key m of the legal-move table, followed
\* immediately by Undo() on the returned handle, each of the 64 squares holds
\* the piece it held before Move(m), and LastMovedPiece and the MoveCount of
\* every piece are what they were before Move(m).
C1_MoveThenUndoRestoresBoard ==
  (lastOp.op = "Undo" /\ lastOp.immediate /\
   client.g.moveEvents[lastOp.handle].Algebraic \in DOMAIN pre.notatedMoves)
    => SameBoard(pre.g.b, client.g.b)

\* C2: whenever Move returns an error, the placement, all MoveCounts,
\* LastMovedPiece, MoveHistory, CaptureHistory, the FEN metadata and the
\* legal-move table are as they were before the call, and the call delivered
\* no event.
C2_FailedMoveChangesNothing ==
  (lastOp.op = "Move" /\ lastOp.err) =>
     /\ client.g.b.Squares = pre.g.b.Squares
     /\ client.g.b.Pieces = pre.g.b.Pieces
     /\ client.g.b.LastMovedPiece = pre.g.b.LastMovedPiece
     /\ client.g.MoveHistory = pre.g.MoveHistory
     /\ client.g.moveEvents = pre.g.moveEvents
     /\ client.g.CaptureHistory = pre.g.CaptureHistory
     /\ fen(client.g) = fen(pre.g)
     /\ client.validMoves = pre.validMoves
     /\ client.notatedMoves = pre.notatedMoves
     /\ emitted = <<>>

\* A move has been committed; then Move was given a well-formed notation that
\* is not in the table, and returned an error.
C2_Witness ==
  /\ lastOp.op = "Move" /\ lastOp.err
  /\ Len(lastOp.ntn) >= 2
  /\ Len(client.g.MoveHistory) > 0
  /\ client.isCheck

\* C3: the legal-move table holds exactly the pseudo-legal pairs of the side
\* to move, and its permitted castling moves, after whose execution the
\* mover's king is not attacked.
C3_TableIsExactlyTheLegalMoves ==
  status = "ok" => TablePairs = LegalPairs

\* C4: CaptureHistory is, in order, the CapturedPiece of those MoveHistory
\* entries that captured, after any committed moves and Undo() calls on
\* handles returned earlier.
C4_CaptureHistoryMatchesMoveHistory ==
  client.g.CaptureHistory =
    SelectSeq([i \in 1 .. Len(client.g.MoveHistory) |->
                 client.g.moveEvents[client.g.MoveHistory[i]].CapturedPiece],
              LAMBDA cp : cp # NoPiece)

\* The castling moves in the legal-move table.
CastleEntries ==
  {p \in TablePairs :
     /\ IsCastlePair(Board.Squares, Board.Pieces, p[1], p[2])
     /\ PieceAt(Board, p[1]).Side = SideToMove}

\* C5: a castling move is in the legal-move table only if the king has never
\* moved, the side's own rook on the h- (resp. a-) file of that rank has
\* never moved, the squares between them are empty, and the king's square,
\* the square it passes over and the square it lands on are not attacked.
C5_CastleOnlyWhenPermitted ==
  \A p \in CastleEntries : CastlePermitted(Board.Squares, Board.Pieces, p[1], p[2])

\* After at least one committed move, the table offers a castling move.
C5_Witness ==
  CastleEntries # {} /\ Len(client.g.MoveHistory) > 0

\* The en-passant captures in the legal-move table: a pawn going to an empty
\* square of another file.
EnPassantEntries ==
  {p \in TablePairs :
     /\ Board.Squares[p[1]] # NoPiece /\ PieceAt(Board, p[1]).Type = piecePawn
     /\ FileOf(p[2]) # FileOf(p[1]) /\ Board.Squares[p[2]] = NoPiece}

\* The last move in force is the two-square push of the pawn now on sq.
JustPushedTwoSquares(sq) ==
  /\ Len(client.g.MoveHistory) > 0
  /\ LET mv == client.g.moveEvents[client.g.MoveHistory[Len(client.g.MoveHistory)]]
     IN /\ Board.Squares[sq] # NoPiece /\ mv.Piece = Board.Squares[sq]
        /\ PieceAt(Board, sq).Type = piecePawn
        /\ mv.PostSquare = sq
        /\ Abs(RankOf(mv.PostSquare) - RankOf(mv.PrevSquare)) = 2

\* C6: an en-passant capture is in the legal-move table only on the move
\* immediately following the captured pawn's two-square push (or, before any
\* move of a game loaded from a FEN, onto the target square the FEN names).
C6_EnPassantOnlyAfterTwoSquarePush ==
  \A p \in EnPassantEntries :
     \/ JustPushedTwoSquares(GetSquare(FileOf(p[2]), RankOf(p[1])))
     \/ Len(client.g.moveEvents) = 0 /\ client.g.enP = p[2]

\* C7: a committed Board.Move is flagged Castle, and relocates a rook, only
\* when a king goes from the e-file two files along its rank.
C7_CastleFlagOnlyForCastling ==
  \A h \in 1 .. Len(client.g.moveEvents) :
     LET mv == client.g.moveEvents[h]
     IN (mv.Castle \/ mv.RookSource # NoSquare) =>
          /\ Board.Pieces[mv.Piece].Type = pieceKing
          /\ FileOf(mv.PrevSquare) = fileE
          /\ RankOf(mv.PostSquare) = RankOf(mv.PrevSquare)
          /\ Abs(FileOf(mv.PostSquare) - FileOf(mv.PrevSquare)) = 2

\* The pairs of the table that notate renders with a promotion letter.
PromotionPairs ==
  {p \in TablePairs : Board.Squares[p[1]] # NoPiece /\ isPromotion(Board, p[1], p[2])}

\* C8: rendering is injective, so the table has one key per legal pair that
\* is no promotion and four per promotion, and each key leads to the pair it
\* was rendered from.
C8_OneKeyPerMove ==
  status = "ok" =>
    /\ Cardinality(DOMAIN client.notatedMoves) =
         Cardinality(TablePairs \ PromotionPairs) + 4 * Cardinality(PromotionPairs)
    /\ {<<client.notatedMoves[k].Src, client.notatedMoves[k].Dest>> :
           k \in DOMAIN client.notatedMoves} = TablePairs

\* C9: before any move, FEN() of a client made from the FEN text f is f.
C9_FenRoundTrip ==
  (status = "ok" /\ ~Scenarios[scn].std /\ Len(client.g.moveEvents) = 0)
    => fen(client.g) = Scenarios[scn].fen

\* C10: FEN() is six non-empty fields separated by single spaces.
C10_FenHasSixNonEmptyFields ==
  status = "ok" =>
    /\ Len(Split(fen(client.g), " ")) = 6
    /\ \A i \in 1 .. Len(Split(fen(client.g), " ")) : Split(fen(client.g), " ")[i] # <<>>

(***************************************************************************)
(* FEN metadata of a loaded game.                                          *)
(***************************************************************************)
\* The space-separated fields of the FEN text the client was created from.
FenFields == Split(Scenarios[scn].fen, " ")

\* The letter of the FEN castling field that stands for the castling move p.
CastleLetter(p) ==
  IF PieceAt(Board, p[1]).Side = sideWhite
  THEN (IF FileOf(p[2]) = fileG THEN "K" ELSE "Q")
  ELSE (IF FileOf(p[2]) = fileG THEN "k" ELSE "q")

\* C11: for a client created from a FEN with a castling field, a castling
\* move is in the legal-move table only if the field holds its letter (K or
\* Q for White, k or q for Black).
C11_FenCastlingFieldRespected ==
  (status = "ok" /\ ~Scenarios[scn].std /\ Len(FenFields) > 2) =>
     \A p \in CastleEntries : InSeq(CastleLetter(p), FenFields[3])

\* The en-passant target square the FEN text names, NoSquare when it names none.
FenEnPassantTarget ==
  IF Len(FenFields) > 3 THEN getSquareByName(FenFields[4]) ELSE NoSquare

\* The squares from which a pawn of the side to move stands beside the pawn
\* that passed over the FEN's en-passant target: on the rank that pawn
\* reached, one file to either side.
FenEnPassantCapturers ==
  LET t == FenEnPassantTarget
      r == IF SideToMove = sideWhite THEN RankOf(t) - 1 ELSE RankOf(t) + 1
      pushed == GetSquare(FileOf(t), r)
  IN IF t = NoSquare \/ r \notin 1 .. 8 THEN {}
     ELSE IF Board.Squares[t] # NoPiece \/ Board.Squares[pushed] = NoPiece THEN {}
     ELSE IF PieceAt(Board, pushed).Type # piecePawn \/
             PieceAt(Board, pushed).Side = SideToMove THEN {}
     ELSE {o \in SquareIdx :
             /\ RankOf(o) = r /\ Abs(FileOf(o) - FileOf(t)) = 1
             /\ Board.Squares[o] # NoPiece
             /\ PieceAt(Board, o).Type = piecePawn
             /\ PieceAt(Board, o).Side = SideToMove}

\* C12: before any move of a client created from a FEN whose en-passant
\* field names a square, a pawn of the side to move standing beside the pawn
\* that made the two-square push has the capture onto the named square in the
\* legal-move table (unless the capture would expose its own king).
C12_FenEnPassantTargetRespected ==
  (status = "ok" /\ ~Scenarios[scn].std /\ Len(client.g.moveEvents) = 0) =>
     \A o \in FenEnPassantCapturers :
        <<o, FenEnPassantTarget>> \in TablePairs \/
        KingAttacked(Executed(Board.Squares, Board.Pieces, o, FenEnPassantTarget),
                     Board.Pieces, SideToMove)

(***************************************************************************)
(* GameStatus.                                                             *)
(***************************************************************************)
\* GameStatus.Side: the side of Board.LastMovedPiece; with no such piece,
\* White when the game's first mover is White and Black otherwise.
Side(g) ==
  IF g.b.LastMovedPiece = NoPiece
  THEN (IF g.wf THEN sideWhite ELSE sideBlack)
  ELSE g.b.Pieces[g.b.LastMovedPiece].Side

\* C13: GameStatus.Side() is the side whose turn it is, in every state.
C13_StatusSideIsSideToMove ==
  status = "ok" => Side(client.g) = SideToMove

(***************************************************************************)
(* Turns.                                                                  *)
(***************************************************************************)
\* The side that moves first: White, or Black for a FEN whose active colour is b.
FirstMover ==
  IF ~Scenarios[scn].std /\ Len(FenFields) > 1 /\ FenFields[2] = <<"b">>
  THEN sideBlack ELSE sideWhite

\* The side to move follows the parity of MoveHistory, and every key of the
\* legal-move table leads to a source square holding a piece of that side.
TurnFollowsParity ==
  status = "ok" =>
    /\ SideToMove = (IF Len(client.g.MoveHistory) % 2 = 0 THEN FirstMover
                     ELSE Opponent(FirstMover))
    /\ \A k \in DOMAIN client.notatedMoves :
          /\ Board.Squares[client.notatedMoves[k].Src] # NoPiece
          /\ PieceAt(Board, client.notatedMoves[k].Src).Side = SideToMove

\* A committed move is made by a piece of the side to move and passes the
\* turn; an undo that takes a move back passes the turn as well; a failed Move,
\* a repeated Undo and Status leave the turn where it is.
TurnPasses ==
  LET before == getCurrentSide(client.g)
      after  == getCurrentSide(client'.g)
  IN IF lastOp'.op = "Move" /\ ~lastOp'.err
     THEN /\ client'.g.b.Pieces[client'.g.moveEvents[lastOp'.handle].Piece].Side = before
          /\ after = Opponent(before)
     ELSE IF lastOp'.op = "Undo" /\ ~client.g.moveEvents[lastOp'.handle].undone
     THEN after = Opponent(before)
     ELSE after = before

\* C14: the side to move is the first mover at even MoveHistory length and
\* the other side at odd length; every committed move and every undo flips
\* it; a move by the side not to move is never committed; every entry of the
\* legal-move table starts from a piece of the side to move.
C14_TurnFollowsMoveHistoryParity ==
  []TurnFollowsParity /\ [][TurnPasses]_vars

\* In a game Black began, one move is in force after a later one was undone:
\* it is White's turn.
C14_Witness ==
  /\ status = "ok" /\ ~client.g.wf
  /\ lastOp.op = "Undo" /\ emitted # <<>>
  /\ Len(client.g.MoveHistory) = 1
  /\ SideToMove = sideWhite

(***************************************************************************)
(* Undo.                                                                   *)
(***************************************************************************)
\* The number of times the event ev occurs in the sequence evs.
Count(evs, ev) == Cardinality({i \in 1 .. Len(evs) : evs[i] = ev})

\* The step is a call of Undo() on a handle: the first one on that handle
\* delivers the undo event once; a later one changes nothing of the board and
\* of the histories and delivers no event.
UndoOnce ==
  lastOp'.op = "Undo" =>
     IF client.g.moveEvents[lastOp'.handle].undone
     THEN /\ client'.g.b = client.g.b
          /\ client'.g.MoveHistory = client.g.MoveHistory
          /\ client'.g.CaptureHistory = client.g.CaptureHistory
          /\ client'.g.moveEvents = client.g.moveEvents
          /\ emitted' = <<>>
     ELSE /\ Count(emitted', "undo") = 1
          /\ client'.g.moveEvents[lastOp'.handle].undone

\* C15: a second or later Undo() on a handle changes nothing (placement,
\* MoveCounts, LastMovedPiece, MoveHistory, CaptureHistory) and emits no
\* event; over all the Undo() calls on a handle the undo event is emitted
\* exactly once, by the first.
C15_UndoIsIdempotent == [][UndoOnce]_vars

\* Undo() has been called again on a handle already undone, while an
\* earlier move is still in force.
C15_Witness ==
  /\ lastOp.op = "Undo" /\ emitted = <<>>
  /\ client.g.moveEvents[lastOp.handle].undone
  /\ Len(client.g.MoveHistory) > 0

(***************************************************************************)
(* Events of a move.                                                       *)
(***************************************************************************)
\* The events a committed move from o to d owes the subscribers, in order,
\* judged on the position b it was made in: move; capture when a piece is
\* taken; castle when the king castles; enPassant when a pawn takes in
\* passing; promote when the notation ntn ends in a promotion letter.
OwedEvents(b, o, d, ntn) ==
  LET ep == /\ PieceAt(b, o).Type = piecePawn
            /\ FileOf(d) # FileOf(o) /\ b.Squares[d] = NoPiece
  IN <<"move">> \o
     (IF b.Squares[d] # NoPiece \/ ep THEN <<"capture">> ELSE <<>>) \o
     (IF IsCastlePair(b.Squares, b.Pieces, o, d) THEN <<"castle">> ELSE <<>>) \o
     (IF ep THEN <<"enPassant">> ELSE <<>>) \o
     (IF promotionChoice(ntn) # <<>> THEN <<"promote">> ELSE <<>>)

\* C16: the events of one successful Move reach the client's subscribers in
\* the order move, capture, castle, enPassant, promote, each once and each
\* only when it applies; check and checkmate events follow them.
C16_MoveEventsInFixedOrder ==
  (lastOp.op = "Move" /\ ~lastOp.err) =>
     LET mv   == client.g.moveEvents[lastOp.handle]
         owed == OwedEvents(pre.g.b, mv.PrevSquare, mv.PostSquare,
                            sanitizeNotation(lastOp.ntn, client.PGN))
     IN /\ Len(emitted) >= Len(owed)
        /\ SubSeq(emitted, 1, Len(owed)) = owed
        /\ \A i \in (Len(owed) + 1) .. Len(emitted) : emitted[i] \in {"check", "checkmate"}

(***************************************************************************)
(* Calls made from inside event handlers.                                  *)
(***************************************************************************)
\* The goroutine g can take its next step: run an item of its own, hand an
\* event to a subscriber that is at its receive, give its ack to the sender
\* waiting for it, or return to the caller.
HubCanStep(g) ==
  /\ hub.run[g] /\ hub.wait[g] = "none"
  /\ \/ hub.todo[g] = <<>>
     \/ Head(hub.todo[g]).do # "send"
     \/ ~hub.run[Head(hub.todo[g]).to]

\* C17: a public operation in progress never stops for good, whatever the
\* handlers registered with On call: while the caller is inside an
\* operation, some goroutine can take a step.
C17_OperationsNeverBlock ==
  hub.run[Caller] => \E g \in Goroutines : HubCanStep(g)

(***************************************************************************)
(* Repetition.                                                             *)
(***************************************************************************)
\* The number of MoveHistory entries recorded with the position hash hc.
Occurrences(hc) ==
  Cardinality({j \in 1 .. Len(client.g.MoveHistory) :
                 client.g.moveEvents[client.g.MoveHistory[j]].hashCode = hc})

\* C18: IsRepetition is true exactly when some position hash occurs at least
\* three times among the MoveHistory entries, after every move and every
\* undo.
C18_RepetitionIffThirdOccurrence ==
  status = "ok" =>
    (client.isRepetition <=>
       \E j \in 1 .. Len(client.g.MoveHistory) :
          Occurrences(client.g.moveEvents[client.g.MoveHistory[j]].hashCode) >= 3)

\* The move just made produced the third occurrence of a position.
C18_Witness ==
  /\ lastOp.op = "Move" /\ ~lastOp.err
  /\ client.isRepetition /\ ~pre.isRepetition


(***************************************************************************)
(* Check, checkmate and stalemate.                                         *)
(***************************************************************************)
\* The king of the side to move is attacked on the board as it stands.
KingOfSideToMoveAttacked == KingAttacked(Board.Squares, Board.Pieces, SideToMove)

\* C19: after every validation pass IsCheck holds iff the king of the side to
\* move is attacked and the legal-move table is non-empty, IsCheckmate iff it
\* is attacked and the table is empty, IsStalemate iff it is not attacked and
\* the table is empty; at most one of the three flags is true.
C19_FlagsFollowAttackAndTable ==
  status = "ok" =>
    /\ client.isCheck     <=> (KingOfSideToMoveAttacked /\ TablePairs # {})
    /\ client.isCheckmate <=> (KingOfSideToMoveAttacked /\ TablePairs = {})
    /\ client.isStalemate <=> (~KingOfSideToMoveAttacked /\ TablePairs = {})
    /\ Cardinality({f \in {"check", "checkmate", "stalemate"} :
                      \/ f = "check" /\ client.isCheck
                      \/ f = "checkmate" /\ client.isCheckmate
                      \/ f = "stalemate" /\ client.isStalemate}) <= 1


\* The move just made mated the side to move.
C19_Witness ==
  /\ lastOp.op = "Move" /\ ~lastOp.err
  /\ client.isCheckmate /\ KingOfSideToMoveAttacked /\ TablePairs = {}


(***************************************************************************)
(* The cached status.                                                      *)
(***************************************************************************)
\* What Status reports of a client: the flags and the table.
Reported(c) ==
  <<c.isCheck, c.isCheckmate, c.isRepetition, c.isStalemate, c.notatedMoves>>

\* The flags alone.
Flags(c) == <<c.isCheck, c.isCheckmate, c.isRepetition, c.isStalemate>>

\* The move of handle h is in the table again, under some key.
Offered(h) ==
  LET mv == client.g.moveEvents[h]
  IN /\ <<mv.PrevSquare, mv.PostSquare>> \in TablePairs
     /\ \E k \in DOMAIN client.notatedMoves :
           /\ client.notatedMoves[k].Src = mv.PrevSquare
           /\ client.notatedMoves[k].Dest = mv.PostSquare

\* Status() after Move or Undo reports what Status(true) would.
CacheIsFresh ==
  (status = "ok" /\ lastOp.op \in {"Move", "Undo"}) =>
     Reported(ClientStatus(client, FALSE)) = Reported(ClientStatus(client, TRUE))

\* Move(m) and then Undo() bring back the flags of before m and offer m again.
UndoRestoresStatus ==
  (status = "ok" /\ lastOp.op = "Undo" /\ lastOp.immediate) =>
     /\ Flags(client) = Flags(pre)
     /\ Offered(lastOp.handle)

\* C20: after every Move or Undo returns, the flags and NotatedMoves of
\* Status() equal a forced recomputation on the current position; after
\* Move(m) followed by Undo() the table again contains m and the flags are
\* those of the position before m.
C20_CachedStatusIsCurrent == CacheIsFresh /\ UndoRestoresStatus


(***************************************************************************)
(* Promotion.                                                              *)
(***************************************************************************)
\* The rank on which a pawn of side sd promotes.
LastRank(sd) == IF sd = sideWhite THEN 8 ELSE 1

\* The pairs of the table by which a pawn of the side to move reaches its
\* last rank.
LastRankPairs ==
  {p \in TablePairs :
     /\ Board.Squares[p[1]] # NoPiece
     /\ PieceAt(Board, p[1]).Type = piecePawn
     /\ PieceAt(Board, p[1]).Side = SideToMove
     /\ RankOf(p[2]) = LastRank(SideToMove)}

\* The bare key of a pawn move: the square for a push, file x square for a
\* capture.
BarePawnKey(o, d) ==
  (IF FileOf(o) # FileOf(d) THEN <<FileChars[FileOf(o) + 1], "x">> ELSE <<>>) \o name(d)

\* The keys of the table that stand for the pair (o, d).
KeysOf(o, d) ==
  {k \in DOMAIN client.notatedMoves :
     client.notatedMoves[k].Src = o /\ client.notatedMoves[k].Dest = d}

\* C21: a pawn move of the side to move to its last rank, by push or by
\* capture, has no bare key and exactly the four keys with R, N, B and Q
\* appended; no other move has a key ending in a promotion letter.
C21_PromotionKeysExpanded ==
  status = "ok" =>
    /\ \A p \in LastRankPairs :
          /\ BarePawnKey(p[1], p[2]) \notin DOMAIN client.notatedMoves
          /\ KeysOf(p[1], p[2]) =
               {BarePawnKey(p[1], p[2]) \o <<l>> : l \in {"R", "N", "B", "Q"}}
    /\ \A k \in DOMAIN client.notatedMoves :
          k[Len(k)] \in {"R", "N", "B", "Q"} =>
             <<client.notatedMoves[k].Src, client.notatedMoves[k].Dest>> \in LastRankPairs

\* A capture that promotes is on offer.
C21_Witness ==
  /\ status = "ok"
  /\ \E p \in LastRankPairs : FileOf(p[1]) # FileOf(p[2]) /\ Board.Squares[p[2]] # NoPiece
  /\ \E p \in LastRankPairs : FileOf(p[1]) = FileOf(p[2])


\* The sanitized input of the last Move.
LastKey == sanitizeNotation(lastOp.ntn, client.PGN)

\* The last call was a committed Move whose input is a key of the table
\* ending in a promotion letter.
PromotionKeyPlayed ==
  /\ status = "ok" /\ lastOp.op = "Move" /\ ~lastOp.err
  /\ LastKey \in DOMAIN pre.notatedMoves
  /\ LastKey[Len(LastKey)] \in {"R", "N", "B", "Q"}

\* The kind a promotion letter names.
KindOfLetter(l) ==
  CASE l = "R" -> pieceRook [] l = "N" -> pieceKnight
    [] l = "B" -> pieceBishop [] l = "Q" -> pieceQueen

\* C22: after Move with a legal promotion key the destination holds a new
\* piece of the named kind and of the pawn's side whose MoveCount is the
\* pawn's after the move, the last MoveHistory entry has Promotion set, and
\* exactly one promote event has been emitted.
C22_PromotionReplacesPawn ==
  PromotionKeyPlayed =>
    LET src  == pre.notatedMoves[LastKey].Src
        dst  == pre.notatedMoves[LastKey].Dest
        pawn == pre.g.b.Squares[src]
        last == client.g.moveEvents[client.g.MoveHistory[Len(client.g.MoveHistory)]]
    IN /\ Board.Squares[dst] # NoPiece
       /\ Board.Squares[dst] # pawn
       /\ \A sq \in SquareIdx : pre.g.b.Squares[sq] # Board.Squares[dst]
       /\ PieceAt(Board, dst).Type = KindOfLetter(LastKey[Len(LastKey)])
       /\ PieceAt(Board, dst).Side = pre.g.b.Pieces[pawn].Side
       /\ PieceAt(Board, dst).MoveCount = pre.g.b.Pieces[pawn].MoveCount + 1
       /\ last.Piece = pawn /\ last.PostSquare = dst
       /\ last.Promotion
       /\ Count(emitted, "promote") = 1

\* A black pawn has just promoted by a capture.
C22_Witness ==
  /\ PromotionKeyPlayed
  /\ pre.g.b.Squares[pre.notatedMoves[LastKey].Dest] # NoPiece
  /\ PieceAt(Board, pre.notatedMoves[LastKey].Dest).Side = sideBlack


(***************************************************************************)
(* Ambiguous input.                                                        *)
(***************************************************************************)
\* The squares from which a piece of the kind lettered l could legally move
\* to d when the last Move was called.
Candidates(l, d) ==
  {o \in SquareIdx :
     /\ pre.g.b.Squares[o] # NoPiece
     /\ Notation(PieceAt(pre.g.b, o).Type) = <<l>>
     /\ \E i \in 1 .. Len(pre.validMoves) :
           /\ pre.validMoves[i].origin = o
           /\ InSeq(d, pre.validMoves[i].destinationSquares)}

\* The last call was Move with a piece letter and a square that two or more
\* pieces of that kind could reach.
AmbiguousInputPlayed ==
  /\ status = "ok" /\ lastOp.op = "Move"
  /\ Len(lastOp.ntn) = 3
  /\ lastOp.ntn[1] \in {"N", "B", "R", "Q", "K"}
  /\ getSquareByName(SubSeq(lastOp.ntn, 2, 3)) # NoSquare
  /\ Cardinality(Candidates(lastOp.ntn[1], getSquareByName(SubSeq(lastOp.ntn, 2, 3)))) >= 2

\* C23: when two or more pieces of one kind can legally move to a square, an
\* input of only the piece letter and that square makes Move return an error
\* and leaves the game unchanged.
C23_AmbiguousInputFails ==
  AmbiguousInputPlayed => (lastOp.err /\ client = pre /\ emitted = <<>>)

\* Ra5 was given while all three rooks could go to a5.
C23_Witness ==
  /\ AmbiguousInputPlayed
  /\ Cardinality(Candidates(lastOp.ntn[1], getSquareByName(SubSeq(lastOp.ntn, 2, 3)))) = 3


(***************************************************************************)
(* Rejected FEN strings.                                                   *)
(***************************************************************************)
\* The number of squares a rank row describes.
RECURSIVE RowSquares(_)
RowSquares(row) ==
  IF row = <<>> THEN 0
  ELSE (IF IsDigit(row[1]) THEN DigitValue(row[1]) ELSE 1) + RowSquares(Tail(row))

\* The piece placement has 8 ranks of known characters, each describing
\* exactly 8 squares.
PlacementWellFormed(fenText) ==
  LET rs == Split(Split(fenText, " ")[1], "/")
  IN /\ Len(rs) = 8
     /\ \A i \in 1 .. 8 :
           /\ \A j \in 1 .. Len(rs[i]) :
                 rs[i][j] \in {"p", "n", "b", "r", "q", "k", "P", "N", "B", "R", "Q", "K",
                               "1", "2", "3", "4", "5", "6", "7", "8"}
           /\ RowSquares(rs[i]) = 8

\* C24: CreateAlgebraicGameClientFromFEN returns an error, without
\* panicking, for a blank FEN and for a placement that has not 8 ranks, has
\* an unknown piece character, or has a row that does not describe exactly 8
\* squares.
C24_MalformedFenIsAnError ==
  (~Scenarios[scn].std /\
   (IsBlank(Scenarios[scn].fen) \/ ~PlacementWellFormed(Scenarios[scn].fen))) =>
     status = "error"


(***************************************************************************)
(* The kings.                                                              *)
(***************************************************************************)
\* The squares that hold a king of side sd.
KingSquares(sd) ==
  {sq \in SquareIdx : Board.Squares[sq] # NoPiece /\
                      PieceAt(Board, sq).Type = pieceKing /\ PieceAt(Board, sq).Side = sd}

\* C25: in every state reached from the standard initial position by Move
\* and Undo the board holds exactly one white king and exactly one black
\* king, and no committed move has captured a king.
C25_OneKingEach ==
  (status = "ok" /\ Scenarios[scn].std) =>
    /\ Cardinality(KingSquares(sideWhite)) = 1
    /\ Cardinality(KingSquares(sideBlack)) = 1
    /\ \A h \in 1 .. Len(client.g.moveEvents) :
          client.g.moveEvents[h].CapturedPiece # NoPiece =>
             Board.Pieces[client.g.moveEvents[h].CapturedPiece].Type # pieceKing


(***************************************************************************)
(* Castling input.                                                         *)
(***************************************************************************)
\* The ways of writing a castling move, and the one the table uses.
CastleForms(long) ==
  IF long THEN {<<"O", "-", "O", "-", "O">>, <<"0", "-", "0", "-", "0">>}
          ELSE {<<"O", "-", "O">>, <<"0", "-", "0">>}

TableForm(long) ==
  CHOOSE k \in CastleForms(long) : (k[1] = "O") <=> client.PGN

\* The castling pairs that were in the table when the last Move was called.
CastleOffered(long) ==
  {p \in SquareIdx \X SquareIdx :
     /\ IsCastlePair(pre.g.b.Squares, pre.g.b.Pieces, p[1], p[2])
     /\ FileOf(p[2]) = (IF long THEN fileC ELSE fileG)
     /\ \E i \in 1 .. Len(pre.validMoves) :
           /\ pre.validMoves[i].origin = p[1]
           /\ InSeq(p[2], pre.validMoves[i].destinationSquares)}

\* The last call was Move with either way of writing the castle on that
\* wing, while the castle was in the table.
CastleInputPlayed(long) ==
  /\ status = "ok" /\ lastOp.op = "Move"
  /\ lastOp.ntn \in CastleForms(long)
  /\ CastleOffered(long) # {}

\* The last committed move is the castle on that wing.
CastlePlayed(long) ==
  /\ ~lastOp.err
  /\ LET mv == client.g.moveEvents[lastOp.handle]
         rk == GetSquare(IF long THEN fileD ELSE fileF, RankOf(mv.PostSquare))
     IN /\ <<mv.PrevSquare, mv.PostSquare>> \in CastleOffered(long)
        /\ mv.Castle
        /\ mv.Algebraic = TableForm(long)
        /\ Board.Squares[mv.PostSquare] = mv.Piece
        /\ Board.Squares[rk] # NoPiece /\ PieceAt(Board, rk).Type = pieceRook

\* C26: in numeric and in PGN mode O-O and 0-0 resolve to the king-side
\* castle and O-O-O and 0-0-0 to the queen-side castle whenever it is legal;
\* the table key is 0-0 / 0-0-0 in numeric mode and O-O / O-O-O in PGN mode.
C26_CastleInputEitherForm ==
  /\ \A long \in BOOLEAN : CastleInputPlayed(long) => CastlePlayed(long)
  /\ status = "ok" =>
       \A p \in CastleEntries : KeysOf(p[1], p[2]) = {TableForm(FileOf(p[2]) = fileC)}

\* A castle was played from the way of writing it that the table does not use.
C26_Witness ==
  \E long \in BOOLEAN :
     /\ CastleInputPlayed(long) /\ CastlePlayed(long)
     /\ lastOp.ntn # TableForm(long)


(***************************************************************************)
(* The standard start.                                                     *)
(***************************************************************************)
\* The keys of the table whose move starts on a piece of kind pt.
KeysOfKind(pt) ==
  {k \in DOMAIN client.notatedMoves :
     Board.Squares[client.notatedMoves[k].Src] # NoPiece /\
     PieceAt(Board, client.notatedMoves[k].Src).Type = pt}

\* 'rnbqkbnr/pppppppp/8/8/4P3/8/PPPP1PPP/RNBQKBNR b KQkq e3 0 1'
FenAfterE4 ==
  <<"r", "n", "b", "q", "k", "b", "n", "r", "/", "p", "p", "p", "p", "p", "p", "p", "p", "/",
    "8", "/", "8", "/", "4", "P", "3", "/", "8", "/",
    "P", "P", "P", "P", "1", "P", "P", "P", "/", "R", "N", "B", "Q", "K", "B", "N", "R",
    " ", "b", " ", "K", "Q", "k", "q", " ", "e", "3", " ", "0", " ", "1">>

\* C27: from the standard initial position the table has exactly 20 entries,
\* 16 pawn pushes and 4 knight moves, e4 among them; after Move("e4") FEN()
\* returns rnbqkbnr/pppppppp/8/8/4P3/8/PPPP1PPP/RNBQKBNR b KQkq e3 0 1.
C27_StandardStart ==
  (status = "ok" /\ Scenarios[scn].std) =>
    /\ Len(client.g.moveEvents) = 0 =>
         /\ Cardinality(DOMAIN client.notatedMoves) = 20
         /\ Cardinality(KeysOfKind(piecePawn)) = 16
         /\ Cardinality(KeysOfKind(pieceKnight)) = 4
         /\ \A k \in KeysOfKind(piecePawn) :
               FileOf(client.notatedMoves[k].Src) = FileOf(client.notatedMoves[k].Dest)
         /\ <<"e", "4">> \in DOMAIN client.notatedMoves
    /\ (lastOp.op = "Move" /\ ~lastOp.err /\ lastOp.ntn = <<"e", "4">> /\ lastOp.handle = 1) =>
         fen(client.g) = FenAfterE4

\* e4 has just been played as the first move.
C27_Witness ==
  /\ status = "ok" /\ Scenarios[scn].std
  /\ lastOp.op = "Move" /\ ~lastOp.err /\ lastOp.ntn = <<"e", "4">> /\ lastOp.handle = 1


(***************************************************************************)
(* The validation pass as a frame.                                         *)
(***************************************************************************)
\* A validation pass on game g leaves the board, the histories and the FEN
\* metadata as they are and emits nothing but check and checkmate.
PassLeaves(g) ==
  LET r == gameValidatorCheck(g)
  IN /\ SameBoard(g.b, r.g.b)
     /\ r.g.MoveHistory = g.MoveHistory
     /\ r.g.CaptureHistory = g.CaptureHistory
     /\ r.g.moveEvents = g.moveEvents
     /\ <<r.g.cstl, r.g.enP, r.g.hmc, r.g.fmn, r.g.wf>> = <<g.cstl, g.enP, g.hmc, g.fmn, g.wf>>
     /\ \A i \in 1 .. Len(r.g.emitted) : r.g.emitted[i] \in {"check", "checkmate"}

\* The board as loadBoard returns it for the scenario's FEN.
LoadedBoard == loadBoard(Scenarios[scn].fen).b

\* C28: a validation pass leaves the piece placement, every MoveCount,
\* LastMovedPiece, MoveHistory, CaptureHistory and the FEN metadata as they
\* were, also for FEN-loaded positions whose unmoved king stands off the
\* e-file, and emits no move, capture, castle, enPassant or undo event.
C28_ValidationPassIsAFrame ==
  status = "ok" =>
    /\ PassLeaves(client.g)
    /\ (~Scenarios[scn].std /\ Len(client.g.moveEvents) = 0) =>
          SameBoard(LoadedBoard, Board)


(***************************************************************************)
(* Conservation of pieces.                                                 *)
(***************************************************************************)
\* How often the piece p is held: the squares it stands on and its entries
\* in CaptureHistory.
Holdings(p) ==
  Cardinality({sq \in SquareIdx : Board.Squares[sq] = p}) +
  Cardinality({i \in 1 .. Len(client.g.CaptureHistory) : client.g.CaptureHistory[i] = p})

\* The pieces the position was constructed with; later ones are made by
\* promotion.
ConstructedPieces ==
  1 .. (IF Scenarios[scn].std THEN Len(createBoard.Pieces) ELSE Len(LoadedBoard.Pieces))

\* The pawns that a promotion in force has replaced.
ReplacedPawns ==
  {client.g.moveEvents[h].Piece : h \in
     {h \in 1 .. Len(client.g.moveEvents) :
        /\ client.g.moveEvents[h].Promotion /\ ~client.g.moveEvents[h].undone
        /\ Board.Pieces[client.g.moveEvents[h].Piece].Type = piecePawn}}

\* C29: every piece is on exactly one square or exactly once in
\* CaptureHistory, never both and never neither, except a pawn replaced by
\* promotion (and the piece a promotion made, once that move is undone).
C29_PiecesAreConserved ==
  status = "ok" =>
    \A p \in 1 .. Len(Board.Pieces) :
       IF p \in ReplacedPawns \/ p \notin ConstructedPieces
       THEN Holdings(p) <= 1
       ELSE Holdings(p) = 1


(***************************************************************************)
(* Undo on any handle.                                                     *)
(***************************************************************************)
\* The step is the first Undo() on a handle: afterwards MoveHistory is what
\* it was without that handle's MoveEvent, the other entries in their order.
UndoRemovesOwnEntry ==
  (lastOp'.op = "Undo" /\ ~client.g.moveEvents[lastOp'.handle].undone) =>
     client'.g.MoveHistory =
       SelectSeq(client.g.MoveHistory, LAMBDA e : e # lastOp'.handle)

\* C30: after Undo() on a handle returns, that handle's own MoveEvent is no
\* longer in MoveHistory and every other entry is still there in its
\* original order, whichever handle returned earlier is undone.
C30_UndoRemovesOwnEntry == [][UndoRemovesOwnEntry]_vars


(***************************************************************************)
(* Pawns on the last rank.                                                 *)
(***************************************************************************)
\* The squares of rank 1 and rank 8 on which a pawn stands.
PawnsOnLastRank ==
  {sq \in SquareIdx :
     /\ RankOf(sq) \in {1, 8}
     /\ Board.Squares[sq] # NoPiece
     /\ PieceAt(Board, sq).Type = piecePawn}

\* C31: after any successful Move no pawn stands on rank 1 or rank 8: an
\* accepted input that moves a pawn to its last rank, a key or a verbose
\* source-destination form, has the pawn replaced by a promoted piece.
C31_NoPawnOnLastRank ==
  (status = "ok" /\ lastOp.op = "Move" /\ ~lastOp.err) => PawnsOnLastRank = {}


(***************************************************************************)
(* Castling rights and the castling field.                                 *)
(***************************************************************************)
\* The castling right of letter l exists on the board: that side's king on
\* its e-file home square and its own rook on the h- (resp. a-) file home
\* square, both with MoveCount 0.
RightOnBoard(l) ==
  LET sd   == IF l \in {"K", "Q"} THEN sideWhite ELSE sideBlack
      rank == IF sd = sideWhite THEN 1 ELSE 8
      ksq  == GetSquare(fileE, rank)
      rsq  == GetSquare(IF l \in {"K", "k"} THEN fileH ELSE fileA, rank)
      unmoved(sq, pt) ==
        /\ Board.Squares[sq] # NoPiece
        /\ PieceAt(Board, sq).Type = pt
        /\ PieceAt(Board, sq).Side = sd
        /\ PieceAt(Board, sq).MoveCount = 0
  IN unmoved(ksq, pieceKing) /\ unmoved(rsq, pieceRook)

\* The third field of FEN().
FenCastlingField == Split(fen(client.g), " ")[3]

\* C32: the castling field of FEN() contains K (resp. Q, k, q) if and only
\* if that castling right still exists on the board, in every reachable
\* state.
C32_CastlingFieldMatchesBoard ==
  status = "ok" =>
    \A l \in {"K", "Q", "k", "q"} : InSeq(l, FenCastlingField) <=> RightOnBoard(l)


(***************************************************************************)
(* Neighbour squares.                                                      *)
(***************************************************************************)
\* The file and rank displacement each neighbour offset stands for.
Displacement(n) ==
  CASE n = NeighborAbove            -> <<0, 1>>
    [] n = NeighborAboveLeft        -> <<0 - 1, 1>>
    [] n = NeighborAboveRight       -> <<1, 1>>
    [] n = NeighborBelow            -> <<0, 0 - 1>>
    [] n = NeighborBelowLeft        -> <<0 - 1, 0 - 1>>
    [] n = NeighborBelowRight       -> <<1, 0 - 1>>
    [] n = NeighborLeft             -> <<0 - 1, 0>>
    [] n = NeighborRight            -> <<1, 0>>
    [] n = NeighborKnightAboveLeft  -> <<0 - 1, 2>>
    [] n = NeighborKnightAboveRight -> <<1, 2>>
    [] n = NeighborKnightBelowLeft  -> <<0 - 1, 0 - 2>>
    [] n = NeighborKnightBelowRight -> <<1, 0 - 2>>
    [] n = NeighborKnightLeftAbove  -> <<0 - 2, 1>>
    [] n = NeighborKnightLeftBelow  -> <<0 - 2, 0 - 1>>
    [] n = NeighborKnightRightAbove -> <<2, 1>>
    [] n = NeighborKnightRightBelow -> <<2, 0 - 1>>

\* The square at that displacement from sq, nil when it is off the board.
Displaced(sq, n) ==
  LET f == FileOf(sq) + Displacement(n)[1]
      r == RankOf(sq) + Displacement(n)[2]
  IN IF f \in 0 .. 7 /\ r \in 1 .. 8 THEN GetSquare(f, r) ELSE NoSquare

\* The (square, offset) pairs for which getNeighborSquare does not return
\* the displaced square.
WrongNeighbors ==
  {p \in SquareIdx \X Neighbors : getNeighborSquare(p[1], p[2]) # Displaced(p[1], p[2])}

\* C33: for each of the 64 squares and each of the 16 neighbour offsets
\* getNeighborSquare returns the square at the intended file and rank
\* displacement when it is on the board and nil otherwise, on the board of
\* every constructed game.
C33_NeighborIsDisplacedSquare == status = "ok" => WrongNeighbors = {}


(***************************************************************************)
(* Pawn pushes from the starting rank.                                     *)
(***************************************************************************)
\* The squares holding a pawn on its side's starting rank that has not moved.
UnmovedPawns ==
  {sq \in SquareIdx :
     /\ Board.Squares[sq] # NoPiece
     /\ PieceAt(Board, sq).Type = piecePawn
     /\ PieceAt(Board, sq).MoveCount = 0
     /\ RankOf(sq) = (IF PieceAt(Board, sq).Side = sideWhite THEN 2 ELSE 7)}

\* The squares one and two steps ahead of the pawn on sq.
Ahead(sq, k) ==
  GetSquare(FileOf(sq), IF PieceAt(Board, sq).Side = sideWhite THEN 2 + k ELSE 7 - k)

\* The destinations generated for the pawn on sq that lie on its own file.
Pushes(sq) ==
  {d \in SquareIdx : InSeq(d, Check(Board, sq)) /\ FileOf(d) = FileOf(sq)}

\* The diagonal captures generated for the pawn on sq.
CapturesOf(sq) ==
  {d \in SquareIdx : InSeq(d, Check(Board, sq)) /\ FileOf(d) # FileOf(sq)}

ExpectedPushes(sq) ==
  IF Board.Squares[Ahead(sq, 1)] # NoPiece THEN {}
  ELSE IF Board.Squares[Ahead(sq, 2)] # NoPiece THEN {Ahead(sq, 1)}
  ELSE {Ahead(sq, 1), Ahead(sq, 2)}

\* C34: an unmoved pawn on its starting rank has both pushes when both
\* squares ahead are empty, only the one-square push when the far square is
\* occupied, and no push when the near square is occupied, whatever captures
\* it has.
C34_StartingRankPushes ==
  status = "ok" => \A sq \in UnmovedPawns : Pushes(sq) = ExpectedPushes(sq)

\* After a move was played: one pawn with both pushes, one with the far
\* square taken and a capture, and one blocked pawn with a capture.
C34_Witness ==
  /\ status = "ok" /\ lastOp.op = "Move" /\ ~lastOp.err
  /\ \E sq \in UnmovedPawns : Cardinality(Pushes(sq)) = 2
  /\ \E sq \in UnmovedPawns : Pushes(sq) = {Ahead(sq, 1)} /\ CapturesOf(sq) # {}
  /\ \E sq \in UnmovedPawns :
       Board.Squares[Ahead(sq, 1)] # NoPiece /\ Pushes(sq) = {} /\ CapturesOf(sq) # {}


(***************************************************************************)
(* Delivery of one emit.                                                   *)
(***************************************************************************)
\* The goroutines take their steps whenever they can: a runnable goroutine
\* is scheduled, a send proceeds when the receiver is at its receive.
SpecHubFair ==
  /\ SpecHub
  /\ \A g \in Goroutines : WF_vars(HubExec(g)) /\ WF_vars(HubSend(g))
  /\ \A s \in Subscribers : WF_vars(HubAck(s))
  /\ WF_vars(HubReturn)

\* The emit running in goroutine g has not yet handed its event to s.
EmitOwes(g, s) == hub.run[g] /\ InSeq(Item("send", s), hub.todo[g])

\* The subscribers of one event of one hub, as pairs in subscription order.
ListenerPairs ==
  {<<Listeners(h, e)[i], Listeners(h, e)[j]>> :
     <<h, e, i, j>> \in {q \in {"board", "game", "client"} \X {"move", "undo", "check"}
                                 \X (1 .. 2) \X (1 .. 2) :
                           q[3] < q[4] /\ q[4] <= Len(Listeners(q[1], q[2]))}}

\* The position of the first send to s among the items of g (0 when none).
FirstSend(g, s) ==
  IF InSeq(Item("send", s), hub.todo[g])
  THEN CHOOSE i \in 1 .. Len(hub.todo[g]) :
         /\ hub.todo[g][i] = Item("send", s)
         /\ \A j \in 1 .. (i - 1) : hub.todo[g][j] # Item("send", s)
  ELSE 0

\* While a handler runs, exactly one emit waits for it; two handlers of one
\* event never run together; a later subscriber is never served before an
\* earlier one of the same emit.
EmitIsOrdered ==
  /\ \A s \in Subscribers :
       hub.run[s] => Cardinality({g \in Goroutines : hub.wait[g] = s}) = 1
  /\ \A p \in ListenerPairs : ~(hub.run[p[1]] /\ hub.run[p[2]])
  /\ \A p \in ListenerPairs : \A g \in Goroutines :
       /\ EmitOwes(g, p[1]) => EmitOwes(g, p[2]) /\ FirstSend(g, p[1]) < FirstSend(g, p[2])
       /\ hub.wait[g] = p[1] => EmitOwes(g, p[2])

\* C35: emit hands the event to every handler subscribed to it, once each
\* and in subscription order, each handler finishing before the next starts,
\* and returns after the last; every emit that has begun gets to each of its
\* subscribers.
C35_EmitReachesEverySubscriber ==
  /\ []EmitIsOrdered
  /\ \A g \in Goroutines : \A s \in Subscribers : EmitOwes(g, s) ~> ~EmitOwes(g, s)


(***************************************************************************)
(* The counters, the castling string and the en-passant target.            *)
(***************************************************************************)
\* The last operation was a Move that was committed.
MoveCommitted == status = "ok" /\ lastOp.op = "Move" /\ ~lastOp.err

\* The MoveEvent of the move just committed, and the piece that made it as
\* it stood before the move.
CommittedMove == client.g.moveEvents[lastOp.handle]

MoverBefore == pre.g.b.Pieces[pre.g.b.Squares[CommittedMove.PrevSquare]]

\* The number of pieces standing on the board b.
Standing(b) == Cardinality({sq \in SquareIdx : b.Squares[sq] # NoPiece})

\* The committed move took a piece off the board.
WasCapture == Standing(Board) < Standing(pre.g.b)

\* C36: on every committed move the half-move clock becomes 0 for a pawn move
\* or a capture and otherwise grows by one, and the full-move number grows by
\* one when Black moved and stays when White moved.
C36_ClocksFollowTheMove ==
  MoveCommitted =>
    /\ client.g.hmc = (IF MoverBefore.Type = piecePawn \/ WasCapture THEN 0
                       ELSE pre.g.hmc + 1)
    /\ client.g.fmn = (IF MoverBefore.Side = sideBlack THEN pre.g.fmn + 1
                       ELSE pre.g.fmn)

\* C36 as amended: the full-move number grows by one when Black moved and the
\* number was at least 1, and stays otherwise; the half-move clock as above.
C36_ClocksFollowTheMoveFromOne ==
  MoveCommitted =>
    /\ client.g.hmc = (IF MoverBefore.Type = piecePawn \/ WasCapture THEN 0
                       ELSE pre.g.hmc + 1)
    /\ client.g.fmn = (IF MoverBefore.Side = sideBlack /\ pre.g.fmn >= 1 THEN pre.g.fmn + 1
                       ELSE pre.g.fmn)

\* Black has made a quiet move with a piece: both counters grew by one, the
\* half-move clock from a value above 0.
C36_Witness ==
  /\ MoveCommitted
  /\ MoverBefore.Side = sideBlack /\ MoverBefore.Type # piecePawn /\ ~WasCapture
  /\ pre.g.hmc > 0 /\ client.g.hmc = pre.g.hmc + 1
  /\ client.g.fmn = pre.g.fmn + 1


\* The letters the claim takes away for the committed move: both of the
\* mover's side for a king, the corner's letter for a rook leaving a corner.
LettersTaken ==
  IF MoverBefore.Type = pieceKing
  THEN (IF MoverBefore.Side = sideWhite THEN {"K", "Q"} ELSE {"k", "q"})
  ELSE IF MoverBefore.Type = pieceRook
  THEN (CASE CommittedMove.PrevSquare = GetSquare(fileA, 1) -> {"Q"}
          [] CommittedMove.PrevSquare = GetSquare(fileH, 1) -> {"K"}
          [] CommittedMove.PrevSquare = GetSquare(fileA, 8) -> {"q"}
          [] CommittedMove.PrevSquare = GetSquare(fileH, 8) -> {"k"}
          [] OTHER -> {})
  ELSE {}

RECURSIVE Without(_, _)
Without(str, letters) ==
  IF str = <<>> THEN <<>>
  ELSE (IF Head(str) \in letters THEN <<>> ELSE <<Head(str)>>) \o Without(Tail(str), letters)

CastlingLetters == {client.g.cstl[i] : i \in 1 .. Len(client.g.cstl)}

\* After a committed move the castling string is the one before it without
\* the letters taken.
CastlingFollowsTheMove ==
  MoveCommitted => client.g.cstl = Without(pre.g.cstl, LettersTaken)

\* C37: a committed move takes K and Q from the castling string when the
\* white king moved, k and q when the black king moved, the corner's letter
\* when a rook left a1, h1, a8 or h8, and nothing otherwise; a letter that
\* is gone never comes back.
C37_CastlingLettersOnlyGo ==
  [][CastlingFollowsTheMove' /\ (CastlingLetters' \subseteq CastlingLetters)]_vars

\* A rook has left h1 (K went, the other letters stayed) after another move.
C37_Witness ==
  /\ MoveCommitted
  /\ MoverBefore.Type = pieceRook /\ CommittedMove.PrevSquare = GetSquare(fileH, 1)
  /\ "K" \in {pre.g.cstl[i] : i \in 1 .. Len(pre.g.cstl)}
  /\ CastlingLetters = {pre.g.cstl[i] : i \in 1 .. Len(pre.g.cstl)} \ {"K"}
  /\ CastlingLetters # {}


\* The square the committed move passed over when it was a pawn's two-square
\* push, nil for every other move.
PassedOver ==
  IF MoverBefore.Type = piecePawn /\
     FileOf(CommittedMove.PostSquare) = FileOf(CommittedMove.PrevSquare) /\
     Abs(RankOf(CommittedMove.PostSquare) - RankOf(CommittedMove.PrevSquare)) = 2
  THEN GetSquare(FileOf(CommittedMove.PrevSquare),
                 (RankOf(CommittedMove.PostSquare) + RankOf(CommittedMove.PrevSquare)) \div 2)
  ELSE NoSquare

\* C38: after a committed move the en-passant target is the square passed
\* over when the move was a pawn's two-square push, and is empty after every
\* other move.
C38_TargetIsPassedOverSquare ==
  MoveCommitted => client.g.enP = PassedOver

\* A two-square push has set the target, after a move that had none.
C38_Witness ==
  /\ MoveCommitted
  /\ PassedOver # NoSquare /\ client.g.enP = PassedOver
  /\ Len(client.g.MoveHistory) > 1


(***************************************************************************)
(* What an input names and what is played.                                 *)
(***************************************************************************)
\* The input of the last Move as looked up, and without its piece letter,
\* capture mark and promotion letter.
InputGiven == sanitizeNotation(lastOp.ntn, client.PGN)

InputSquares ==
  SelectSeq(InputGiven, LAMBDA ch : InSeq(ch, FileChars) \/ InSeq(ch, Digits))

PieceNamed == InputGiven # <<>> /\ InputGiven[1] \in {"B", "K", "N", "Q", "R"}

KindNamed ==
  CASE InputGiven[1] = "B" -> pieceBishop [] InputGiven[1] = "K" -> pieceKing
    [] InputGiven[1] = "N" -> pieceKnight [] InputGiven[1] = "Q" -> pieceQueen
    [] InputGiven[1] = "R" -> pieceRook

\* The input names a source file: a file letter ahead of the destination.
FileNamed ==
  /\ Len(InputSquares) \in {3, 4}
  /\ InSeq(InputSquares[1], FileChars)
  /\ InSeq(InputSquares[Len(InputSquares) - 1], FileChars)

CaptureNamed == InSeq("x", InputGiven)

\* C39: the move executed for an accepted input agrees with the source file,
\* the capture mark and the piece letter the input names.
C39_MoveAgreesWithInput ==
  MoveCommitted =>
    /\ PieceNamed => MoverBefore.Type = KindNamed
    /\ FileNamed => FileChars[FileOf(CommittedMove.PrevSquare) + 1] = InputSquares[1]
    /\ CaptureNamed => WasCapture


(***************************************************************************)
(* One input, one outcome.                                                 *)
(***************************************************************************)
\* notationMove.FEN(fen) for the move from src to dest: the set of possible
\* results, <<"error">> or the FEN after the move.  The notation handed to
\* Move is the first key of the fresh client's table, in map iteration
\* order, whose move has the same source and destination.
notationMoveFEN(src, dest, fenText) ==
  With(CreateAlgebraicGameClientFromFEN(fenText, FALSE), LAMBDA made :
    IF made.status # "ok" THEN {<<"error">>}
    ELSE With(ClientStatus(settled(made.c), TRUE), LAMBDA ac :
           With({n \in DOMAIN ac.notatedMoves :
                   ac.notatedMoves[n].Src = src /\ ac.notatedMoves[n].Dest = dest},
                LAMBDA hits :
             IF hits = {} THEN {<<"error">>}
             ELSE {IF r.err THEN <<"error">> ELSE fen(r.c.g) :
                     r \in UNION {ClientMove(ac, n) : n \in hits}})))

\* The moves of the current table.
TableMoves == {client.notatedMoves[k] : k \in DOMAIN client.notatedMoves}

\* C40: Move has one outcome for every input (position, recorded
\* MoveEvents, FEN), and notationMove.FEN has one result for every move of
\* the table of a fresh client and that client's FEN.
C40_OneOutcomePerInput ==
  status = "ok" =>
    /\ \A ntn \in Inputs : Cardinality(ClientMove(client, ntn)) = 1
    /\ lastOp.op = "Create" =>
         \A nm \in TableMoves :
            Cardinality(notationMoveFEN(nm.Src, nm.Dest, fen(client.g))) = 1
=============================================================================
